---- MODULE Spec2Model ----
(***************************************************************************)
(* A model of the orchestration core of nlutestframework:                  *)
(*   - run_in_parallel (parallel_exception.py): gather, split, rollback    *)
(*   - NLUBenchmarker.run / __run / createFrameworks (nlu_benchmarker.py)  *)
(*   - NLUFramework.benchmark (nlu_framework.py)                           *)
(*   - OptimizableNLUFramework.prepareDataSet and the optimizer iteration  *)
(*     (optimizable_nlu_framework.py, intent_threshold_optimizer.py)       *)
(* asyncio is modelled as cooperative scheduling: the code between two     *)
(* awaits is one atomic step, an awaited engine call is "outstanding"      *)
(* until the engine completes it (successfully or with an exception).      *)
(***************************************************************************)
EXTENDS Integers, Sequences, FiniteSets, Bags, TLC

\* ----------------------------------------------------------------- bounds
\* longest object list handed to run_in_parallel in SpecPar
MaxObjects == 3
\* number of frameworks (engines) of a run / of createFrameworks
NumFrameworks == 2
\* number of data sets of a run
NumDataSets == 2
\* num_iterations of a run
NumIterations == 2
\* len(data_set.validation_data): rateIntents calls of one validation pass
NumValidation == 1
\* optimizer_iterations of an optimizing framework
OptimizerIterations == 1
\* number of frameworks configured for createFrameworks
NumConfigs == 3
\* largest number of engine calls that raise in one run
MaxFailures == 2
\* largest number of entries _loadData returns for a data set
MaxEntries == 3
\* number of intents (other than the None-intent) of the entries
NumIntents == 2
\* largest count in a cell of a confusion matrix handed to
\* confusionMatrixToF1Scores
MaxCount == 2

\* NLUIntentRating: pairs of a rating, noneIfBelow calls, confidence steps
MaxRated == 2

MaxThresholds == 2

ConfidenceScale == 2

\* one engine on its own: validation entries of a split, iterations of optimize
ValidationEntries == 2

GridIterations == 2

VARIABLES
    objects,            \* run_in_parallel: the objects of the current batch
    op,                 \* run_in_parallel: the operation of the current batch
    rollback_op,        \* run_in_parallel: the rollback operation or "None"
    message,            \* run_in_parallel: the message of the exception
    rp_pc,              \* run_in_parallel: position of the coroutine
    task,               \* gather: the state of each child task
    outcome,            \* gather: result / exception of each operation
    rollback_outcome,   \* gather: result / exception of each rollback
    order,              \* gather: the children in the order they finished
    results,            \* run_in_parallel: local variable results
    succeeded,          \* run_in_parallel: local variable succeeded
    failed,             \* run_in_parallel: local variable failed
    rp_result,          \* run_in_parallel: what it returned or raised
    calls,              \* bag of the calls made so far: <<target, name, data set>>
    optimize_intent_threshold, \* per framework: OptimizableNLUFramework flag
    cancel_flag,        \* NLUBenchmarker.__cancel_flag
    pc,                 \* NLUBenchmarker.run: position of the coroutine
    data_set,           \* __run: index of the current data set
    iteration,          \* __run: loop variable i
    iterations,         \* __run: local variable iterations
    pending,            \* __run/run: the exception propagating through finally
    run_result,         \* run: how it ended
    shuffles,           \* per data set: number of reshuffle() calls
    flag_reads,         \* the reads of the cancel flag: <<data set, where, value>>
    prepared,           \* history: <<framework, data set>> whose prepareDataSet returned
    raised,             \* history: the calls that raised: <<target, operation, call, data set>>
    loaded,             \* NLUDataSet: the entries _loadData returned
    validation_percentage, \* NLUDataSet.__init__: validation_percentage
    ds_pc,              \* NLUDataSet: "new", "constructed", "reshuffled", "raised"
    data,               \* NLUDataSet.__data
    none_data,          \* NLUDataSet.__none_data
    validation_size,    \* NLUDataSet.__validation_size
    training,           \* NLUDataSet.__training
    validation,         \* NLUDataSet.__validation
    held,               \* the list a caller got from training_data / validation_data
    reads,              \* history: what each property returned since the last reshuffle
    confusion_matrix,   \* confusionMatrixToF1Scores: the argument
    f1_scores,          \* confusionMatrixToF1Scores: what it returned or raised
    validations,        \* history: the validation data of each iteration
    report,             \* run: the statistics computed after __run
    sorting,            \* __sortPerformances: the argument and what it returned
    rating,             \* NLUIntentRating: an instance and the calls made on it
    engine              \* one engine on its own: a benchmark pass or optimize

\* NLUDataSet on its own
ds_vars == <<loaded, validation_percentage, ds_pc, data, none_data,
             validation_size, training, validation, held, reads>>

\* the statistics on their own
call_vars == <<sorting, rating, engine>>

stat_vars == <<confusion_matrix, f1_scores, validations, report, call_vars>>

\* the state the orchestration does not touch
pure_vars == <<ds_vars, stat_vars>>

vars == <<objects, op, rollback_op, message, rp_pc, task, outcome,
          rollback_outcome, order, results, succeeded, failed, rp_result, calls,
          optimize_intent_threshold, cancel_flag, pc, data_set, iteration,
          iterations, pending, run_result, shuffles, flag_reads, prepared,
          raised, pure_vars>>

rp_vars == <<objects, op, rollback_op, message, rp_pc, task, outcome,
             rollback_outcome, order, results, succeeded, failed, rp_result>>

run_vars == <<optimize_intent_threshold, cancel_flag, pc, data_set, iteration,
              iterations, pending, run_result, shuffles, flag_reads, prepared,
              raised>>

history == <<prepared, raised>>

\* ------------------------------------------------------------------ values
\* The value an operation returns for an object.
Result(name, obj) == <<"Result", name, obj, "">>

\* An exception raised by the call `name` on `obj`; ctx names the call whose
\* exception it replaced while that one was propagating through a finally.
Error(name, obj, ctx) == <<"Error", name, obj, ctx>>

\* isinstance(x, BaseException)
IsException(x) == x[1] = "Error"

NoException == [type |-> "None", message |-> "", operation_exceptions |-> <<>>,
                rollback_exceptions |-> <<>>, context |-> <<>>]

KeyboardInterrupt == [type |-> "KeyboardInterrupt", message |-> "",
                      operation_exceptions |-> <<>>,
                      rollback_exceptions |-> <<>>, context |-> <<>>]

ParallelException(msg, operation_exceptions, rollback_exceptions) ==
    [type |-> "ParallelException", message |-> msg,
     operation_exceptions |-> operation_exceptions,
     rollback_exceptions |-> rollback_exceptions, context |-> <<>>]

\* zip(a, b)
Zip(a, b) == [i \in 1..Len(a) |-> <<a[i], b[i]>>]

\* list(filter(Test, s)) for the two filters of run_in_parallel
RECURSIVE FilterSucceeded(_)
FilterSucceeded(s) ==
    IF s = <<>> THEN <<>>
    ELSE (IF ~IsException(Head(s)[2]) THEN <<Head(s)>> ELSE <<>>)
         \o FilterSucceeded(Tail(s))

RECURSIVE FilterFailed(_)
FilterFailed(s) ==
    IF s = <<>> THEN <<>>
    ELSE (IF IsException(Head(s)[1]) THEN <<Head(s)>> ELSE <<>>)
         \o FilterFailed(Tail(s))


\* ------------------------------------------------------------- child tasks
NoError == <<"NoError", "", 0, "">>

\* A child task of gather: the engine call it is waiting for ("done" when the
\* task has finished), the rateIntents calls left in the validation pass, the
\* optimizer iterations left, and the exception held while a finally runs.
Task(call, k, it, exc) == [call |-> call, k |-> k, it |-> it, exc |-> exc]

Pending == <<"Pending", "", 0, "">>

\* The first call a child task awaits when it runs the operation `name`.
FirstCall(name) ==
    CASE name = "benchmark" -> "train"
      [] name = "create"    -> "construct"
      [] OTHER              -> name

\* The data set a call is made for (0: none).
DataSetOf(call, d) ==
    IF call \in {"prepareDataSet", "benchmark", "train", "rateIntents",
                 "cleanupTraining", "unprepareDataSet"}
    THEN d ELSE 0

\* Where the train/validate/cleanup sequence goes after `train` returned:
\* one rateIntents call per validation entry, then cleanupTraining.
AfterTrain(tk) ==
    IF NumValidation > 0 THEN Task("rateIntents", NumValidation, tk.it, NoError)
    ELSE Task("cleanupTraining", 0, tk.it, NoError)

AfterRate(tk) ==
    IF tk.k > 1 THEN Task("rateIntents", tk.k - 1, tk.it, NoError)
    ELSE Task("cleanupTraining", 0, tk.it, NoError)

\* finally: await self.cleanupTraining() with the exception `e` propagating
Finally(tk, e) == Task("cleanupTraining", 0, tk.it, e)

Done == Task("done", 0, 0, NoError)

Step(tk, out, shuffle) == [task |-> tk, outcome |-> out, reshuffle |-> shuffle]

\* The outstanding call of task tk, made on target t while running the
\* operation `name`, returns normally: the task runs up to its next await.
Returns(name, tk, t) ==
    CASE tk.call = "train" -> Step(AfterTrain(tk), Pending, FALSE)
      [] tk.call = "rateIntents" -> Step(AfterRate(tk), Pending, FALSE)
      [] tk.call = "cleanupTraining" ->
            IF tk.exc # NoError THEN Step(Done, tk.exc, FALSE)
            ELSE IF name = "benchmark"
                 THEN Step(Done, Result("benchmark", t), FALSE)
            ELSE IF tk.it > 1
                 THEN Step(Task("train", 0, tk.it - 1, NoError), Pending, TRUE)
            ELSE Step(Done, Result(name, t), TRUE)
      [] tk.call = "prepareDataSet" ->
            IF optimize_intent_threshold[t] /\ OptimizerIterations > 0
            THEN Step(Task("train", 0, OptimizerIterations, NoError), Pending, FALSE)
            ELSE Step(Done, Result(name, t), FALSE)
      [] OTHER -> Step(Done, Result(name, t), FALSE)

\* The outstanding call of task tk raises.
Raises(name, tk, t) ==
    CASE tk.call \in {"train", "rateIntents"} ->
            Step(Finally(tk, Error(tk.call, t, "")), Pending, FALSE)
      [] tk.call = "cleanupTraining" ->
            Step(Done, Error("cleanupTraining", t, tk.exc[2]), FALSE)
      [] OTHER -> Step(Done, Error(tk.call, t, ""), FALSE)

\* The bag of the calls <<target, name, data set>> for a sequence of targets.
RECURSIVE BagOfCalls(_, _, _)
BagOfCalls(targets, name, d) ==
    IF targets = <<>> THEN EmptyBag
    ELSE SetToBag({<<Head(targets), name, DataSetOf(name, d)>>})
         (+) BagOfCalls(Tail(targets), name, d)

\* The object a rollback call is made on, for a pair (object, result) of
\* succeeded: createFrameworks destructs the result, the others use the object.
RollbackTarget(pair) ==
    IF rollback_op = "destruct" THEN pair[2][3] ELSE pair[1]

\* The target of child task j of the gather in progress.
Target(j) ==
    IF rp_pc = "gather_rollback" THEN RollbackTarget(succeeded[j]) ELSE objects[j]

\* The operation the gather in progress runs.
Running == IF rp_pc = "gather_rollback" THEN rollback_op ELSE op

NoResult == [kind |-> "none", value |-> <<>>, exc |-> NoException]

\* asyncio.gather(*map(op, objects), return_exceptions=True): every child is
\* started; the main coroutine is suspended until all of them have finished.
Launch(objs, name, rb, msg) ==
    /\ objects' = objs
    /\ op' = name
    /\ rollback_op' = rb
    /\ message' = msg
    /\ rp_pc' = "gather_op"
    /\ task' = [j \in 1..Len(objs) |-> Task(FirstCall(name), 0, 0, NoError)]
    /\ outcome' = [j \in 1..Len(objs) |-> Pending]
    /\ rollback_outcome' = <<>>
    /\ order' = <<>>
    /\ results' = <<>>
    /\ succeeded' = <<>>
    /\ failed' = <<>>
    /\ rp_result' = NoResult

\* The calls made when the operation `name` is started on the objects.
LaunchCalls(objs, name, d) ==
    IF name = "benchmark"
    THEN BagOfCalls(objs, "benchmark", d) (+) BagOfCalls(objs, "train", d)
    ELSE BagOfCalls(objs, FirstCall(name), d)

\* a gather that ends with the first failure (return_exceptions unset)
FirstFailureOrAllDone ==
    \/ \A j \in DOMAIN task : task[j].call = "done"
    \/ \E j \in DOMAIN outcome : IsException(outcome[j])

AllDone == \A j \in DOMAIN task : task[j].call = "done"

\* One child task advances: the engine completes its outstanding call.
Advance(j, st, exc) ==
    /\ raised' = raised \cup exc
    /\ task' = [task EXCEPT ![j] = st.task]
    /\ IF rp_pc = "gather_op"
       THEN /\ outcome' = [outcome EXCEPT ![j] = st.outcome]
            /\ UNCHANGED rollback_outcome
       ELSE /\ rollback_outcome' = [rollback_outcome EXCEPT ![j] = st.outcome]
            /\ UNCHANGED outcome
    \* the order of completion is recorded where run_in_parallel is analysed
    \* on its own; the code never observes it
    /\ order' = IF st.task.call = "done" /\ pc = "none"
                THEN Append(order, j) ELSE order
    /\ calls' = IF st.task.call = "done" THEN calls
                ELSE calls (+) SetToBag({<<Target(j), st.task.call,
                                           DataSetOf(st.task.call, data_set)>>})
    /\ shuffles' = IF st.reshuffle
                   THEN [shuffles EXCEPT ![data_set] = @ + 1] ELSE shuffles
    /\ prepared' = IF st.outcome = Result("prepareDataSet", Target(j))
                   THEN prepared \cup {<<Target(j), data_set>>} ELSE prepared
    /\ UNCHANGED <<objects, op, rollback_op, message, rp_pc, results,
                   succeeded, failed, rp_result, optimize_intent_threshold,
                   cancel_flag, pc, data_set, iteration, iterations, pending,
                   run_result, flag_reads, pure_vars>>

CallReturns(j) ==
    /\ rp_pc \in {"gather_op", "gather_rollback"}
    /\ task[j].call # "done"
    /\ Advance(j, Returns(Running, task[j], Target(j)), {})

CallRaises(j) ==
    /\ rp_pc \in {"gather_op", "gather_rollback"}
    /\ task[j].call # "done"
    /\ pc = "none" \/ Cardinality(raised) < MaxFailures
    /\ Advance(j, Raises(Running, task[j], Target(j)),
               {<<Target(j), Running, task[j].call,
                  DataSetOf(task[j].call, data_set)>>})

\* --------------------------------------------------------- run_in_parallel
\* The list gather resolves to: the children's results in the order of the
\* awaitables passed in, whatever the order of completion.
GatherResultsInCompletionOrder(outc, ord) == [j \in 1..Len(ord) |-> outc[ord[j]]]

GatherResults(outc, ord) == [j \in 1..Len(outc) |-> outc[j]]

\* a rollback of every object, succeeded or not
SucceededAndFailed(objs, res) == Zip(objs, res)

Succeeded(objs, res) == FilterSucceeded(Zip(objs, res))

\* the test of the wrong list
SomeSucceeded(succ, fail) == Len(succ) > 0

\* if len(failed) == 0
NoFailures(succ, fail) == Len(fail) = 0

Failed(objs, res) == FilterFailed(Zip(res, objs))

\* results = [ (x[0], x[1][0], x[1][1]) for x in zip(results, succeeded) ]
Triples(res, succ) == [j \in 1..Len(res) |-> <<res[j], succ[j][1], succ[j][2]>>]

\* Lines 108-120 and 136: the operations have all finished.
GatherOps ==
    /\ rp_pc = "gather_op"
    /\ AllDone
    /\ LET res  == GatherResults(outcome, order)
           succ == Succeeded(objects, res)
           fail == Failed(objects, res)
       IN /\ results' = res
          /\ succeeded' = succ
          /\ failed' = fail
          /\ IF NoFailures(succ, fail)
             THEN /\ rp_pc' = "returned"
                  /\ rp_result' = [kind |-> "return", value |-> res,
                                   exc |-> NoException]
                  /\ UNCHANGED <<task, rollback_outcome, order, calls>>
             ELSE IF rollback_op # "None"
             THEN /\ rp_pc' = "gather_rollback"
                  /\ task' = [j \in 1..Len(succ) |->
                                 Task(FirstCall(rollback_op), 0, 0, NoError)]
                  /\ rollback_outcome' = [j \in 1..Len(succ) |-> Pending]
                  /\ order' = <<>>
                  /\ calls' = calls (+) BagOfCalls(
                        [j \in 1..Len(succ) |-> RollbackTarget(succ[j])],
                        rollback_op, data_set)
                  /\ UNCHANGED rp_result
             ELSE /\ rp_pc' = "raised"
                  /\ rp_result' = [kind |-> "raise", value |-> <<>>,
                        exc |-> ParallelException(message, fail, <<>>)]
                  /\ UNCHANGED <<task, rollback_outcome, order, calls>>
    /\ UNCHANGED <<objects, op, rollback_op, message, outcome>>
    /\ UNCHANGED <<run_vars, pure_vars>>

\* Lines 122-136: the rollbacks have all finished.
GatherRollbacks ==
    /\ rp_pc = "gather_rollback"
    /\ AllDone
    /\ LET res == Triples(GatherResults(rollback_outcome, order), succeeded)
           rollback_failures == FilterFailed(res)
       IN /\ results' = res
          /\ rp_pc' = "raised"
          /\ rp_result' = [kind |-> "raise", value |-> <<>>,
                exc |-> ParallelException(message, failed, rollback_failures)]
    /\ UNCHANGED <<objects, op, rollback_op, message, task, outcome,
                   rollback_outcome, order, succeeded, failed, calls>>
    /\ UNCHANGED <<run_vars, pure_vars>>

\* no data set is under analysis
NoDataSet ==
    /\ loaded = <<>>
    /\ validation_percentage = 0
    /\ ds_pc = "none"
    /\ data = <<>>
    /\ none_data = <<>>
    /\ validation_size = 0
    /\ training = <<>>
    /\ validation = <<>>
    /\ held = <<>>
    /\ reads = <<>>

\* no statistics are under analysis
NoStatistics ==
    /\ confusion_matrix = <<>>
    /\ f1_scores = <<>>
    /\ validations = <<>>
    /\ report = <<>>
    /\ sorting = <<>>
    /\ rating = <<>>
    /\ engine = <<>>

\* ------------------------------------------- run_in_parallel on its own
Objects == 1..MaxObjects

ObjectLists == UNION {[1..n -> Objects] : n \in 0..MaxObjects}

InitPar ==
    /\ \E objs \in ObjectLists, rb \in {"None", "rollback_op"} :
          /\ objects = objs
          /\ rollback_op = rb
          /\ task = [j \in 1..Len(objs) |-> Task("op", 0, 0, NoError)]
          /\ outcome = [j \in 1..Len(objs) |-> Pending]
          /\ rollback_outcome = <<>>
          /\ calls = LaunchCalls(objs, "op", 0)
    /\ op = "op"
    /\ message = "message"
    /\ rp_pc = "gather_op"
    /\ order = <<>>
    /\ results = <<>>
    /\ succeeded = <<>>
    /\ failed = <<>>
    /\ rp_result = NoResult
    /\ optimize_intent_threshold = <<>>
    /\ cancel_flag = FALSE
    /\ pc = "none"
    /\ data_set = 0
    /\ iteration = 0
    /\ iterations = <<>>
    /\ pending = NoException
    /\ run_result = NoException
    /\ shuffles = <<>>
    /\ flag_reads = {}
    /\ prepared = {}
    /\ raised = {}
    /\ NoDataSet
    /\ NoStatistics

OpReturns == \E j \in DOMAIN task : CallReturns(j)

OpRaises == \E j \in DOMAIN task : CallRaises(j)

NextPar == OpReturns \/ OpRaises \/ GatherOps \/ GatherRollbacks

SpecPar == InitPar /\ [][NextPar]_vars


\* ------------------------------------------------------ NLUBenchmarker.run
Frameworks == 1..NumFrameworks

DataSets == 1..NumDataSets

\* the list `frameworks` handed to run
frameworks == [f \in Frameworks |-> f]

\* raise ... from None: the exception that was propagating is dropped
WithoutContext(exc, e) == exc

\* An exception raised while `e` was propagating: e is kept as its
\* __context__ (<<>> when nothing was propagating).
WithContext(exc, e) ==
    IF e.type = "None" THEN exc ELSE [exc EXCEPT !.context = <<e>>]

\* type(e.__context__)
ContextType(e) == IF e.context = <<>> THEN "None" ELSE e.context[1].type

\* A batch is started by the orchestrator: await run_in_parallel(...).
Batch(next_pc, name, rb, msg, d) ==
    /\ pc' = next_pc
    /\ Launch(frameworks, name, rb, msg)
    /\ calls' = calls (+) LaunchCalls(frameworks, name, d)

\* the prepare batch without a rollback
ForDataSetWithoutRollback(d) ==
    IF d <= NumDataSets
    THEN /\ data_set' = d
         /\ Batch("prepare", "prepareDataSet", "None",
                  "Error while preparing all frameworks", d)
    ELSE /\ data_set' = data_set
         /\ Batch("destruct", "destruct", "None",
                  "Error deconstructing all frameworks.", 0)

\* for data_set in data_sets: the prepare batch of data set d, or, after the
\* last data set, the return from __run into the finally of run.
ForDataSet(d) ==
    IF d <= NumDataSets
    THEN /\ data_set' = d
         /\ Batch("prepare", "prepareDataSet", "unprepareDataSet",
                  "Error while preparing all frameworks", d)
    ELSE /\ data_set' = data_set
         /\ Batch("destruct", "destruct", "None",
                  "Error deconstructing all frameworks.", 0)

\* the unprepare batch of the finally with unprepareDataSet as its rollback
UnprepareWithRollback(e) ==
    /\ pending' = e
    /\ Batch("unprepare", "unprepareDataSet", "unprepareDataSet",
             "Error unpreparing all frameworks.", data_set)

\* finally of __run: the unprepare batch, with `e` propagating (or nothing)
Unprepare(e) ==
    /\ pending' = e
    /\ Batch("unprepare", "unprepareDataSet", "None",
             "Error unpreparing all frameworks.", data_set)

\* no finally in run: the frameworks are destructed after a success only
DestructAfterSuccess(e) ==
    IF e = NoException
    THEN /\ pending' = e
         /\ Batch("destruct", "destruct", "None",
                  "Error deconstructing all frameworks.", 0)
    ELSE /\ pending' = e
         /\ pc' = "done"
         /\ UNCHANGED <<rp_vars, calls>>

\* finally of run: the destruct batch, with `e` propagating (or nothing)
Destruct(e) ==
    /\ pending' = e
    /\ Batch("destruct", "destruct", "None",
             "Error deconstructing all frameworks.", 0)

Benchmark(i) ==
    /\ iteration' = i
    /\ pending' = pending
    /\ Batch("benchmark", "benchmark", "None",
             "Error while benchmarking all frameworks.", data_set)

\* if self.__cancel_flag: the read of the flag at a checkpoint of __run
ReadFlag(where) ==
    flag_reads' = flag_reads \cup {<<data_set, where, cancel_flag>>}

\* iterations.append({ data_set.title: ... }) for every batch
StoreAppended(its, i, d, performances) ==
    Append(its, [k \in {d} |-> performances])

\* iterations[i][data_set.title] = { framework.title: performance ... }
Store(its, i, d, performances) ==
    LET ext == IF Len(its) = i THEN Append(its, <<>>) ELSE its
    IN [ext EXCEPT ![i + 1] =
           [k \in DOMAIN ext[i + 1] \cup {d} |->
               IF k = d THEN performances ELSE ext[i + 1][k]]]

\* one iteration too many
OneMoreIteration(i) == i <= NumIterations

\* for i in range(num_iterations): another iteration follows iteration i - 1
MoreIterations(i) == i < NumIterations

\* the check after the preparation only
CancelledAfterPreparation(where) == where = "prepared" /\ cancel_flag

\* the check at the end of an iteration only
CancelledAfterIteration(where) == where = "iteration" /\ cancel_flag

\* no check after the last iteration of a data set
CancelledBeforeNextIteration(where) ==
    cancel_flag /\ (where = "prepared" \/ MoreIterations(iteration + 1))

\* if self.__cancel_flag: raise KeyboardInterrupt
Cancelled(where) == cancel_flag

\* The frameworks of a run are interchangeable: the configurations are
\* enumerated with the optimizing frameworks listed first.
InitRun ==
    /\ optimize_intent_threshold \in
          {o \in [Frameworks -> BOOLEAN] :
              \A f, g \in Frameworks : (f < g /\ o[g]) => o[f]}
    /\ cancel_flag = FALSE
    /\ pc = "run"
    /\ data_set = 0
    /\ iteration = 0
    /\ iterations = <<>>
    /\ pending = NoException
    /\ run_result = NoException
    /\ shuffles = [d \in DataSets |-> 0]
    /\ flag_reads = {}
    /\ prepared = {}
    /\ raised = {}
    /\ NoDataSet
    /\ NoStatistics
    /\ objects = <<>>
    /\ op = "None"
    /\ rollback_op = "None"
    /\ message = ""
    /\ rp_pc = "idle"
    /\ task = <<>>
    /\ outcome = <<>>
    /\ rollback_outcome = <<>>
    /\ order = <<>>
    /\ results = <<>>
    /\ succeeded = <<>>
    /\ failed = <<>>
    /\ rp_result = NoResult
    /\ calls = EmptyBag

\* the flag is cleared by every call
getInstanceResets(created, flag) == FALSE

\* NLUBenchmarker.getInstance: the value of the flag after the call. The flag
\* is initialised in the except branch only, when the instance is created.
getInstance(created, flag) == IF created THEN flag ELSE FALSE

\* NLUBenchmarker.cancel
cancel(flag) == TRUE

\* The runner obtains the singleton, which exists already when the signal
\* handler has run before, and run is called: __run enters its loop over the
\* data sets.
Run ==
    /\ pc = "run"
    /\ cancel_flag' = getInstance(cancel_flag, cancel_flag)
    /\ ForDataSet(1)
    /\ UNCHANGED <<optimize_intent_threshold, iteration,
                   iterations, pending, run_result, shuffles, flag_reads,
                   history, pure_vars>>

\* the outcome of the prepare batch is not examined
PreparedUnchecked ==
    /\ pc = "prepare"
    /\ rp_pc \in {"returned", "raised"}
    /\ ReadFlag("prepared")
    /\ IF Cancelled("prepared")
       THEN Unprepare(KeyboardInterrupt) /\ UNCHANGED iteration
       ELSE IF MoreIterations(0)
       THEN Benchmark(0)
       ELSE Unprepare(NoException) /\ UNCHANGED iteration
    /\ UNCHANGED <<optimize_intent_threshold, cancel_flag, data_set,
                   iterations, run_result, shuffles, history, pure_vars>>

\* Lines 182-203: the prepare batch has ended.
Prepared ==
    /\ pc = "prepare"
    /\ rp_pc \in {"returned", "raised"}
    /\ IF rp_pc = "raised"
       THEN /\ Destruct(rp_result.exc)
            /\ UNCHANGED <<iteration, flag_reads>>
       ELSE /\ ReadFlag("prepared")
            /\ IF Cancelled("prepared")
               THEN Unprepare(KeyboardInterrupt) /\ UNCHANGED iteration
               ELSE IF MoreIterations(0)
               THEN Benchmark(0)
               ELSE Unprepare(NoException) /\ UNCHANGED iteration
    /\ UNCHANGED <<optimize_intent_threshold, cancel_flag, data_set,
                   iterations, run_result, shuffles, history, pure_vars>>

\* the outcome of the benchmark batch is not examined: the next iteration
\* follows a failed one
BenchmarkedUnchecked ==
    /\ pc = "benchmark"
    /\ rp_pc \in {"returned", "raised"}
    /\ shuffles' = [shuffles EXCEPT ![data_set] = @ + 1]
    /\ iterations' = Store(iterations, iteration, data_set, rp_result.value)
    /\ ReadFlag("iteration")
    /\ IF Cancelled("iteration")
       THEN Unprepare(KeyboardInterrupt) /\ UNCHANGED iteration
       ELSE IF MoreIterations(iteration + 1)
       THEN Benchmark(iteration + 1)
       ELSE Unprepare(NoException) /\ UNCHANGED iteration
    /\ UNCHANGED <<optimize_intent_threshold, cancel_flag, data_set,
                   run_result, history, pure_vars>>

\* Lines 197-216: the benchmark batch of an iteration has ended.
Benchmarked ==
    /\ pc = "benchmark"
    /\ rp_pc \in {"returned", "raised"}
    /\ IF rp_pc = "raised"
       THEN /\ Unprepare(rp_result.exc)
            /\ UNCHANGED <<iteration, iterations, shuffles, flag_reads>>
       ELSE /\ shuffles' = [shuffles EXCEPT ![data_set] = @ + 1]
            /\ iterations' = Store(iterations, iteration, data_set,
                                   rp_result.value)
            /\ ReadFlag("iteration")
            /\ IF Cancelled("iteration")
               THEN Unprepare(KeyboardInterrupt) /\ UNCHANGED iteration
               ELSE IF MoreIterations(iteration + 1)
               THEN Benchmark(iteration + 1)
               ELSE Unprepare(NoException) /\ UNCHANGED iteration
    /\ UNCHANGED <<optimize_intent_threshold, cancel_flag, data_set,
                   run_result, history, pure_vars>>

\* Lines 217-227 and 408-416: the unprepare batch has ended.
Unprepared ==
    /\ pc = "unprepare"
    /\ rp_pc \in {"returned", "raised"}
    /\ IF rp_pc = "raised"
       THEN /\ Destruct(WithContext(rp_result.exc, pending))
            /\ UNCHANGED data_set
       ELSE IF pending # NoException
       THEN /\ Destruct(pending)
            /\ UNCHANGED data_set
       ELSE /\ ForDataSet(data_set + 1)
            /\ UNCHANGED pending
    /\ UNCHANGED <<optimize_intent_threshold, cancel_flag, iteration,
                   iterations, run_result, shuffles, flag_reads, history,
                   pure_vars>>

\* Lines 408-418: the destruct batch has ended; run returns or raises.
Destructed ==
    /\ pc = "destruct"
    /\ rp_pc \in {"returned", "raised"}
    /\ pc' = "done"
    /\ run_result' = IF rp_pc = "raised"
                     THEN WithContext(rp_result.exc, pending)
                     ELSE pending
    /\ UNCHANGED <<rp_vars, calls, optimize_intent_threshold, cancel_flag,
                   data_set, iteration, iterations, pending, shuffles,
                   flag_reads, history, pure_vars>>

\* The signal handler of the event loop: getInstance().cancel()
Cancel ==
    /\ pc \notin {"none", "done"}
    /\ cancel_flag' = cancel(getInstance(cancel_flag, cancel_flag))
    /\ UNCHANGED <<rp_vars, calls, optimize_intent_threshold, pc, data_set,
                   iteration, iterations, pending, run_result, shuffles,
                   flag_reads, history, pure_vars>>

NextRun ==
    \/ Run
    \/ OpReturns
    \/ OpRaises
    \/ GatherOps
    \/ GatherRollbacks
    \/ Prepared
    \/ Benchmarked
    \/ Unprepared
    \/ Destructed
    \/ Cancel

SpecRun == InitRun /\ [][NextRun]_vars

\* ------------------------------------------- NLUBenchmarker.createFrameworks
\* the titles of framework_configs
Configs == 1..NumConfigs

framework_configs == [f \in Configs |-> f]

CreateWithoutRollback == "None"

\* lambda _, x: x.destruct()
CreateRollback == "destruct"

\* createFrameworks is called: run_in_parallel over the configured frameworks,
\* the operation being create_framework (NLUFramework.create).
InitCreate ==
    /\ objects = framework_configs
    /\ op = "create"
    /\ rollback_op = CreateRollback
    /\ message = "Failed to create framework instances."
    /\ rp_pc = "gather_op"
    /\ task = [j \in Configs |-> Task(FirstCall("create"), 0, 0, NoError)]
    /\ outcome = [j \in Configs |-> Pending]
    /\ rollback_outcome = <<>>
    /\ order = <<>>
    /\ results = <<>>
    /\ succeeded = <<>>
    /\ failed = <<>>
    /\ rp_result = NoResult
    /\ calls = LaunchCalls(framework_configs, "create", 0)
    /\ optimize_intent_threshold = <<>>
    /\ cancel_flag = FALSE
    /\ pc = "none"
    /\ data_set = 0
    /\ iteration = 0
    /\ iterations = <<>>
    /\ pending = NoException
    /\ run_result = NoException
    /\ shuffles = <<>>
    /\ flag_reads = {}
    /\ prepared = {}
    /\ raised = {}
    /\ NoDataSet
    /\ NoStatistics

SpecCreate == InitCreate /\ [][NextPar]_vars

\* -------------------------------------------------------------- NLUDataSet
\* Intent = Optional[str]: the None-intent
NoneIntent == 0

Intents == 1..NumIntents

\* An entry of a data set: a sentence (named by a number) and its intent.
NLUDataEntry(sentence, intent) == <<sentence, intent>>

IntentOf(x) == x[2]

\* the validation percentages data sets are constructed with
Percentages == {0, 1, 24, 25, 33, 34, 49, 50, 66, 67, 74, 75, 99, 100}

\* what _loadData can return: up to MaxEntries entries with distinct
\* sentences and intents of the given set
Corpora(intents) ==
    UNION {{[i \in 1..n |-> NLUDataEntry(i, f[i])] : f \in [1..n -> intents]}
           : n \in 0..MaxEntries}

\* list(filter(lambda x: x.intent is not None, data))
WithIntent(s) == SelectSeq(s, LAMBDA x : IntentOf(x) # NoneIntent)

\* list(filter(lambda x: x.intent is None, data))
WithoutIntent(s) == SelectSeq(s, LAMBDA x : IntentOf(x) = NoneIntent)

\* the percentage applied to all loaded entries
ValidationSizeOfLoaded(percentage, entries) ==
    (percentage * Len(entries)) \div 100

\* (validation_percentage * len(self.__data)) // 100, `entries` being what was
\* loaded: the percentage is applied to the entries with an intent only
ValidationSize(percentage, entries) ==
    (percentage * Len(WithIntent(entries))) \div 100

\* random.shuffle: the list in the order given by the permutation p
Shuffled(s, p) == [i \in 1..Len(s) |-> s[p[i]]]

Shuffles(s) == Permutations(1..Len(s))

\* the None-data is added to the training data
ExtendTraining(tr, va, none) == [training |-> tr \o none, validation |-> va]

\* self.__validation.extend(self.__none_data)
Extend(tr, va, none) == [training |-> tr, validation |-> va \o none]

\* no check for an empty half
NeverEmpty(tr, va) == FALSE

\* if len(self.__validation) == 0 or len(self.__training) == 0
SplitEmpty(tr, va) == Len(va) = 0 \/ Len(tr) = 0

\* s[:n], for n >= 0
Upto(s, n) == SubSeq(s, 1, IF n < Len(s) THEN n ELSE Len(s))

\* s[n:], for n >= 0
From(s, n) == SubSeq(s, (IF n < Len(s) THEN n ELSE Len(s)) + 1, Len(s))

\* the split drops the entry at the boundary
SplitSkipsOne(s, size, none, p) ==
    LET d  == Shuffled(s, p)
        tr == From(d, size + 1)
        va == Upto(d, size)
    IN IF SplitEmpty(tr, va)
       THEN [data |-> d, training |-> tr, validation |-> va, raises |-> TRUE]
       ELSE [data |-> d, training |-> Extend(tr, va, none).training,
             validation |-> Extend(tr, va, none).validation, raises |-> FALSE]

\* reshuffle with the shuffle p: the new __data, __training and __validation,
\* and whether ValueError is raised (then the None-data has not been added)
Split(s, size, none, p) ==
    LET d  == Shuffled(s, p)
        tr == From(d, size)
        va == Upto(d, size)
    IN IF SplitEmpty(tr, va)
       THEN [data |-> d, training |-> tr, validation |-> va, raises |-> TRUE]
       ELSE [data |-> d, training |-> Extend(tr, va, none).training,
             validation |-> Extend(tr, va, none).validation, raises |-> FALSE]

\* the property returns the data set's own list
SameList(name, s) == [ref |-> name, value |-> s]

\* list(self.__training), list(self.__validation): a new list, equal to the
\* data set's own
ListCopy(name, s) == [ref |-> "copy", value |-> s]

NoReads == [training_data |-> <<>>, validation_data |-> <<>>]

\* no run, no batch: the orchestration variables while a data set or a pure
\* function is analysed on its own
NoRun ==
    /\ objects = <<>>
    /\ op = "None"
    /\ rollback_op = "None"
    /\ message = ""
    /\ rp_pc = "idle"
    /\ task = <<>>
    /\ outcome = <<>>
    /\ rollback_outcome = <<>>
    /\ order = <<>>
    /\ results = <<>>
    /\ succeeded = <<>>
    /\ failed = <<>>
    /\ rp_result = NoResult
    /\ calls = EmptyBag
    /\ optimize_intent_threshold = <<>>
    /\ cancel_flag = FALSE
    /\ pc = "none"
    /\ data_set = 0
    /\ iteration = 0
    /\ iterations = <<>>
    /\ pending = NoException
    /\ run_result = NoException
    /\ shuffles = <<>>
    /\ flag_reads = {}
    /\ prepared = {}
    /\ raised = {}

\* A data set is about to be constructed from a file and a percentage. The
\* split tells the None-intent from the others only: one other intent is used.
InitDataSet ==
    /\ loaded \in Corpora({NoneIntent, 1})
    /\ validation_percentage \in Percentages
    /\ ds_pc = "new"
    /\ data = <<>>
    /\ none_data = <<>>
    /\ validation_size = 0
    /\ training = <<>>
    /\ validation = <<>>
    /\ held = <<>>
    /\ reads = NoReads
    /\ NoRun
    /\ NoStatistics

\* reshuffle() with the shuffle p. A list a caller holds stays what it was:
\* __training and __validation are bound to new lists.
DoReshuffle(s, size, p, then) ==
    LET r == Split(s, size, none_data', p)
    IN /\ data' = r.data
       /\ training' = r.training
       /\ validation' = r.validation
       /\ ds_pc' = IF r.raises THEN "raised" ELSE then
       /\ held' = IF held = <<>> THEN held
                  ELSE <<[ref |-> "copy", value |-> held[1].value]>>
       /\ reads' = NoReads

\* NLUDataSet.__init__ (lines 69-83): load, separate the None-data, compute
\* the validation size, perform the initial shuffle-and-split.
Construct ==
    /\ ds_pc = "new"
    /\ none_data' = WithoutIntent(loaded)
    /\ validation_size' = ValidationSize(validation_percentage, loaded)
    /\ \E p \in Shuffles(WithIntent(loaded)) :
          DoReshuffle(WithIntent(loaded),
                      ValidationSize(validation_percentage, loaded), p,
                      "constructed")
    /\ UNCHANGED <<loaded, validation_percentage>>
    /\ UNCHANGED <<rp_vars, calls, run_vars, stat_vars>>

\* NLUDataSet.reshuffle on a constructed data set
Reshuffle ==
    /\ ds_pc \in {"constructed", "reshuffled"}
    /\ none_data' = none_data
    /\ \E p \in Shuffles(data) : DoReshuffle(data, validation_size, p, "reshuffled")
    /\ UNCHANGED <<loaded, validation_percentage, validation_size>>
    /\ UNCHANGED <<rp_vars, calls, run_vars, stat_vars>>

\* a caller reads data_set.training_data and keeps the list
ReadTrainingData ==
    /\ ds_pc \in {"constructed", "reshuffled"}
    /\ held' = <<ListCopy("__training", training)>>
    /\ reads' = [reads EXCEPT !.training_data = <<training>>]
    /\ UNCHANGED <<loaded, validation_percentage, ds_pc, data, none_data,
                   validation_size, training, validation>>
    /\ UNCHANGED <<rp_vars, calls, run_vars, stat_vars>>

\* a caller reads data_set.validation_data and keeps the list
ReadValidationData ==
    /\ ds_pc \in {"constructed", "reshuffled"}
    /\ held' = <<ListCopy("__validation", validation)>>
    /\ reads' = [reads EXCEPT !.validation_data = <<validation>>]
    /\ UNCHANGED <<loaded, validation_percentage, ds_pc, data, none_data,
                   validation_size, training, validation>>
    /\ UNCHANGED <<rp_vars, calls, run_vars, stat_vars>>

\* the caller removes the last element of the list it holds: list.pop()
Pop ==
    /\ held # <<>>
    /\ held[1].value # <<>>
    /\ LET s == SubSeq(held[1].value, 1, Len(held[1].value) - 1)
       IN /\ held' = <<[held[1] EXCEPT !.value = s]>>
          /\ training' = IF held[1].ref = "__training" THEN s ELSE training
          /\ validation' = IF held[1].ref = "__validation" THEN s ELSE validation
    /\ UNCHANGED <<loaded, validation_percentage, ds_pc, data, none_data,
                   validation_size, reads>>
    /\ UNCHANGED <<rp_vars, calls, run_vars, stat_vars>>

NextDataSet ==
    \/ Construct
    \/ Reshuffle
    \/ ReadTrainingData
    \/ ReadValidationData
    \/ Pop

SpecDataSet == InitDataSet /\ [][NextDataSet]_vars

\* ------------------------------------------------ confusionMatrixToF1Scores
\* Numbers are exact fractions <<numerator, denominator>> in lowest terms with
\* a positive denominator; the rounding of the floats is left out.
RECURSIVE GCD(_, _)
GCD(a, b) == IF b = 0 THEN a ELSE GCD(b, a % b)

Abs(a) == IF a < 0 THEN -a ELSE a

Fraction(n, m) ==
    LET g == GCD(Abs(n), Abs(m))
    IN IF m < 0 THEN <<(-n) \div g, (-m) \div g>> ELSE <<n \div g, m \div g>>

Number(n) == <<n, 1>>

Plus(x, y) == Fraction(x[1] * y[2] + y[1] * x[2], x[2] * y[2])

Minus(x, y) == Fraction(x[1] * y[2] - y[1] * x[2], x[2] * y[2])

Times(x, y) == Fraction(x[1] * y[1], x[2] * y[2])

\* dividend / divisor, raised as ZeroDivisionError when the divisor is 0
ZeroDivisionError == <<"ZeroDivisionError">>

Divide(x, y) ==
    IF y[1] = 0 THEN ZeroDivisionError ELSE Fraction(x[1] * y[2], x[2] * y[1])

\* plain division
UnsafeDivide(dividend, divisor) == Divide(dividend, divisor)

\* __safeDivide: 0 for 0/0, the normal quotient otherwise
SafeDivide(dividend, divisor) ==
    IF dividend[1] = 0 /\ divisor[1] = 0 THEN Number(0)
    ELSE Divide(dividend, divisor)

\* sum of term[x] over the elements x of a finite set
RECURSIVE SumOver(_, _)
SumOver(S, term) ==
    IF S = {} THEN 0
    ELSE LET x == CHOOSE y \in S : TRUE
         IN term[x] + SumOver(S \ {x}, term)

\* the (expected, detected) pairs the two loops of __prepareF1Score go through
Items(matrix) ==
    UNION {{<<e, dt>> : dt \in DOMAIN matrix[e]} : e \in DOMAIN matrix}

\* __prepareF1Score: the four counters after the loops
PrepareF1Score(intent, matrix) ==
    LET Amount == [it \in Items(matrix) |-> matrix[it[1]][it[2]]]
        Count(Test(_)) == SumOver({it \in Items(matrix) : Test(it)}, Amount)
    IN [true_positives  |-> Count(LAMBDA it : it[1] = intent /\ it[2] = intent),
        false_negatives |-> Count(LAMBDA it : it[1] = intent /\ it[2] # intent),
        false_positives |-> Count(LAMBDA it : it[1] # intent /\ it[2] = intent),
        true_negatives  |-> Count(LAMBDA it : it[1] # intent /\ it[2] # intent)]

\* the score without the scaling by 100
F1Unscaled(precision, recall) ==
    SafeDivide(Times(Number(2), Times(precision, recall)), Plus(precision, recall))

\* __safeDivide(100 * 2 * precision * recall, precision + recall)
F1(precision, recall) ==
    SafeDivide(Times(Number(100 * 2), Times(precision, recall)),
               Plus(precision, recall))

\* the body of the loop of confusionMatrixToF1Scores for one intent
F1Score(intent, matrix) ==
    LET c == PrepareF1Score(intent, matrix)
        precision == SafeDivide(Number(c.true_positives),
                                Number(c.true_positives + c.false_positives))
        recall    == SafeDivide(Number(c.true_positives),
                                Number(c.true_positives + c.false_negatives))
    IN IF ZeroDivisionError \in {precision, recall} THEN ZeroDivisionError
       ELSE F1(precision, recall)

\* for intent in confusion_matrix.keys()
Keys(matrix) == DOMAIN matrix

\* confusionMatrixToF1Scores: the mapping returned, or the error raised
ConfusionMatrixToF1Scores(matrix) ==
    LET scores == [i \in Keys(matrix) |-> F1Score(i, matrix)]
    IN IF \E i \in DOMAIN scores : scores[i] = ZeroDivisionError
       THEN [kind |-> "raise", value |-> ZeroDivisionError]
       ELSE [kind |-> "return", value |-> scores]

\* the confusion matrices of the analysis: a row for some of the intents, a
\* count for every detected intent (0: the row has no such key)
ConfusionMatrices ==
    UNION {[rows -> [Intents -> 0..MaxCount]] : rows \in SUBSET Intents}

InitF1 ==
    /\ confusion_matrix \in ConfusionMatrices
    /\ f1_scores = <<>>
    /\ validations = <<>>
    /\ report = <<>>
    /\ sorting = <<>>
    /\ rating = <<>>
    /\ engine = <<>>
    /\ NoRun
    /\ NoDataSet

\* confusionMatrixToF1Scores is called
CallF1Scores ==
    /\ f1_scores = <<>>
    /\ f1_scores' = <<ConfusionMatrixToF1Scores(confusion_matrix)>>
    /\ UNCHANGED <<confusion_matrix, validations, report, call_vars>>
    /\ UNCHANGED <<rp_vars, calls, run_vars, ds_vars>>

SpecF1 == InitF1 /\ [][CallF1Scores]_vars

\* ------------------------------------------------- the statistics of a run
\* The statistics of one data set: the loops of run over the data sets are
\* independent of each other, the data set under analysis has the title 1.
\* __validate: the confusion matrix of a validation pass in which the engine
\* answered detected[k] for the k-th entry of the validation data.
Validate(validation_data, detected) ==
    LET expected == {IntentOf(validation_data[k]) : k \in DOMAIN validation_data}
        rated(e, dt) == {k \in DOMAIN validation_data :
                            IntentOf(validation_data[k]) = e /\ detected[k] = dt}
    IN [e \in expected |->
          [dt \in {detected[k] : k \in {j \in DOMAIN validation_data :
                                           IntentOf(validation_data[j]) = e}} |->
              Cardinality(rated(e, dt))]]

\* what an engine can answer for an entry: its intent, or no intent
Answers(validation_data) ==
    {a \in [DOMAIN validation_data -> {NoneIntent} \cup Intents] :
        \A k \in DOMAIN validation_data :
           a[k] \in {IntentOf(validation_data[k]), NoneIntent}}

\* __confusionMatricesToF1Scores
ConfusionMatricesToF1Scores(its) ==
    [i \in DOMAIN its |->
        [d \in DOMAIN its[i] |->
            [f \in DOMAIN its[i][d] |->
                ConfusionMatrixToF1Scores(its[i][d][f]).value]]]

\* _Performance
Performance(mean, variance) == [mean |-> mean, variance |-> variance]

\* sum(...) of a list of numbers
RECURSIVE Sum(_)
Sum(s) == IF s = <<>> THEN Number(0) ELSE Plus(Head(s), Sum(Tail(s)))

\* sum(scores) / len(scores)
Mean(scores) == Divide(Sum(scores), Number(Len(scores)))

\* sum(map(lambda x: (x - mean) ** 2, scores)) / len(scores)
Variance(scores) ==
    LET mean == Mean(scores)
    IN Divide(Sum([k \in DOMAIN scores |->
                      Times(Minus(scores[k], mean), Minus(scores[k], mean))]),
              Number(Len(scores)))

\* list(filter(lambda x: x is not None, map(score_getter, iterations)))
RECURSIVE FilteredScores(_, _, _, _)
FilteredScores(its, d, f, intent) ==
    IF its = <<>> THEN <<>>
    ELSE (IF intent \in DOMAIN Head(its)[d][f]
          THEN <<Head(its)[d][f][intent]>> ELSE <<>>)
         \o FilteredScores(Tail(its), d, f, intent)

\* the intents of the validation passes of the iterations
IntentsOfIterations(validation_data, its, d) ==
    UNION {UNION {DOMAIN its[i][d][f] : f \in DOMAIN its[i][d]} : i \in DOMAIN its}

\* intents = { x.intent for x in data_set.validation_data }
IntentsOfDataSet(validation_data, its, d) ==
    {IntentOf(validation_data[k]) : k \in DOMAIN validation_data}

\* __f1ScoreMeansAndVariances for the data set d, whose validation data is
\* validation_data when the statistics are computed
F1ScoreMeansAndVariances(fws, d, validation_data, its) ==
    LET intents == IntentsOfDataSet(validation_data, its, d)
    IN [f \in {fws[k] : k \in DOMAIN fws} |->
          [intent \in {i \in intents : FilteredScores(its, d, f, i) # <<>>} |->
              Performance(Mean(FilteredScores(its, d, f, intent)),
                          Variance(FilteredScores(its, d, f, intent)))]]

\* the list of the values of a mapping from intents
RECURSIVE Values(_, _)
Values(S, m) ==
    IF S = {} THEN <<>>
    ELSE LET x == CHOOSE y \in S : \A z \in S : y <= z
         IN <<m[x]>> \o Values(S \ {x}, m)

\* __mergeIntentPerformances for one data set
MergeIntentPerformances(performances) ==
    IF \E f \in DOMAIN performances : DOMAIN performances[f] = {}
    THEN [kind |-> "raise", value |-> ZeroDivisionError]
    ELSE [kind |-> "return", value |->
            [f \in DOMAIN performances |->
                LET values == Values(DOMAIN performances[f], performances[f])
                    means == [k \in DOMAIN values |-> values[k].mean]
                    variances == [k \in DOMAIN values |-> values[k].variance]
                IN Performance(Mean(means), Mean(variances))]]

Less(x, y) == x[1] * y[2] < y[1] * x[2]

\* sorted(items, key=lambda x: x[1].mean, reverse=True): stable, descending
RECURSIVE Sorted(_)
Sorted(items) ==
    IF items = <<>> THEN <<>>
    ELSE LET rest == Sorted(SubSeq(items, 1, Len(items) - 1))
             x == items[Len(items)]
             \* x goes behind every element that is not smaller
             n == Cardinality({k \in DOMAIN rest : ~Less(rest[k][2].mean, x[2].mean)})
         IN SubSeq(rest, 1, n) \o <<x>> \o SubSeq(rest, n + 1, Len(rest))

\* reversed(s)
Reversed(s) == [k \in DOMAIN s |-> s[Len(s) + 1 - k]]

\* sorted(items, key=lambda x: x[1].mean): stable, ascending
RECURSIVE SortedAscending(_)
SortedAscending(items) ==
    IF items = <<>> THEN <<>>
    ELSE LET rest == SortedAscending(SubSeq(items, 1, Len(items) - 1))
             x == items[Len(items)]
             n == Cardinality({k \in DOMAIN rest : ~Less(x[2].mean, rest[k][2].mean)})
         IN SubSeq(rest, 1, n) \o <<x>> \o SubSeq(rest, n + 1, Len(rest))

\* an ascending sort turned around: engines with equal means swap places
SortPerformancesReversed(fws, merged) ==
    Reversed(SortedAscending([k \in DOMAIN fws |-> <<fws[k], merged[fws[k]]>>]))

\* __sortPerformances for one data set: the items in the order of insertion
SortPerformances(fws, merged) ==
    Sorted([k \in DOMAIN fws |-> <<fws[k], merged[fws[k]]>>])

\* run after __run returned (lines 418-426)
Statistics(fws, d, validation_data, its) ==
    LET performances == F1ScoreMeansAndVariances(fws, d, validation_data,
                                                 ConfusionMatricesToF1Scores(its))
        merged == MergeIntentPerformances(performances)
    IN IF merged.kind = "raise"
       THEN [kind |-> "raise", exc |-> merged.value,
             performances |-> performances]
       ELSE [kind |-> "return", performances |-> performances,
             merged |-> merged.value,
             ranking |-> SortPerformances(fws, merged.value)]

\* the validation percentages of the data set of the statistics
StatisticsPercentages == {34, 50}

\* A run begins: the data set has been constructed from entries of all intents.
InitStatistics ==
    /\ loaded \in Corpora({NoneIntent} \cup Intents)
    /\ validation_percentage \in StatisticsPercentages
    /\ ds_pc = "constructed"
    /\ none_data = WithoutIntent(loaded)
    /\ validation_size = ValidationSize(validation_percentage, loaded)
    /\ \E p \in Shuffles(WithIntent(loaded)) :
          LET r == Split(WithIntent(loaded), validation_size, none_data, p)
          IN /\ ~r.raises
             /\ data = r.data
             /\ training = r.training
             /\ validation = r.validation
    /\ held = <<>>
    /\ reads = NoReads
    /\ confusion_matrix = <<>>
    /\ f1_scores = <<>>
    /\ validations = <<>>
    /\ report = <<>>
    /\ sorting = <<>>
    /\ rating = <<>>
    /\ engine = <<>>
    /\ objects = <<>>
    /\ op = "None"
    /\ rollback_op = "None"
    /\ message = ""
    /\ rp_pc = "idle"
    /\ task = <<>>
    /\ outcome = <<>>
    /\ rollback_outcome = <<>>
    /\ order = <<>>
    /\ results = <<>>
    /\ succeeded = <<>>
    /\ failed = <<>>
    /\ rp_result = NoResult
    /\ calls = EmptyBag
    /\ optimize_intent_threshold = [f \in Frameworks |-> FALSE]
    /\ cancel_flag = FALSE
    /\ pc = "benchmark"
    /\ data_set = 1
    /\ iteration = 0
    /\ iterations = <<>>
    /\ pending = NoException
    /\ run_result = NoException
    /\ shuffles = <<>>
    /\ flag_reads = {}
    /\ prepared = {}
    /\ raised = {}

\* Lines 197-213 of __run when every engine succeeds: the benchmark batch of
\* iteration i (every engine validates on the current validation data), the
\* reshuffle of the data set, and the storing of the confusion matrices.
BenchmarkIteration ==
    /\ pc = "benchmark"
    /\ MoreIterations(iteration)
    /\ \E answers \in [Frameworks -> Answers(validation)] :
          iterations' = Store(iterations, iteration, data_set,
                              [f \in Frameworks |-> Validate(validation, answers[f])])
    /\ validations' = Append(validations, validation)
    /\ \E p \in Shuffles(data) :
          LET r == Split(data, validation_size, none_data, p)
          IN /\ data' = r.data
             /\ training' = r.training
             /\ validation' = r.validation
             /\ ds_pc' = IF r.raises THEN "raised" ELSE "reshuffled"
    /\ iteration' = iteration + 1
    /\ UNCHANGED <<loaded, validation_percentage, none_data, validation_size,
                   held, reads, confusion_matrix, f1_scores, report,
                   call_vars>>
    /\ UNCHANGED <<rp_vars, calls, optimize_intent_threshold, cancel_flag, pc,
                   data_set, pending, run_result, shuffles, flag_reads, history>>

\* Lines 418-426 of run: __run has returned, the frameworks are destructed,
\* the statistics are computed.
Report ==
    /\ pc = "benchmark"
    /\ ~MoreIterations(iteration)
    /\ pc' = "done"
    /\ report' = <<Statistics(frameworks, data_set, validation, iterations)>>
    /\ UNCHANGED <<ds_vars, confusion_matrix, f1_scores, validations,
                   call_vars>>
    /\ UNCHANGED <<rp_vars, calls, optimize_intent_threshold, cancel_flag,
                   data_set, iteration, iterations, pending, run_result,
                   shuffles, flag_reads, history>>

NextStatistics == BenchmarkIteration \/ Report

SpecStatistics == InitStatistics /\ [][NextStatistics]_vars

\* ------------------------------------------ __sortPerformances on its own
\* the summaries of the engines of one data set, in the order of insertion
SummaryMeans == {Number(0), Number(50), Number(100)}

SummaryVariances == {Number(0), Number(25)}

Summaries ==
    UNION {[1..n -> [mean : SummaryMeans, variance : SummaryVariances]] :
              n \in 0..MaxObjects}

InitSort ==
    /\ \E merged \in Summaries : sorting = [performances |-> merged, result |-> <<>>]
    /\ rating = <<>>
    /\ engine = <<>>
    /\ confusion_matrix = <<>>
    /\ f1_scores = <<>>
    /\ validations = <<>>
    /\ report = <<>>
    /\ NoRun
    /\ NoDataSet

\* __sortPerformances is called for the data set
CallSortPerformances ==
    /\ sorting.result = <<>>
    /\ sorting' = [sorting EXCEPT !.result =
          <<SortPerformances([k \in DOMAIN sorting.performances |-> k],
                             sorting.performances)>>]
    /\ UNCHANGED <<rating, engine>>
    /\ UNCHANGED <<confusion_matrix, f1_scores, validations, report>>
    /\ UNCHANGED <<rp_vars, calls, run_vars, ds_vars>>

SpecSort == InitSort /\ [][CallSortPerformances]_vars

\* ---------------------------------------------------------- NLUIntentRating
\* Confidences are multiples of 1/ConfidenceScale: the number k stands for
\* the confidence k/ConfidenceScale, ConfidenceScale itself for 1.0.
Confidences == 0..ConfidenceScale

\* the thresholds handed to noneIfBelow: also below 0 and above 1
Thresholds == (0 - 1)..(ConfidenceScale + 1)

\* rated_intents: the pairs (intent, confidence) in the order of the caller
RatedIntents ==
    UNION {[1..n -> Intents \X Confidences] : n \in 0..MaxRated}

IndexError == [kind |-> "raise", value |-> "IndexError"]

\* an ascending sort turned around: pairs with equal confidences swap places
RECURSIVE SortedIntentsReversed(_)
SortedIntentsReversed(rated_intents) ==
    IF rated_intents = <<>> THEN <<>>
    ELSE LET rest == SortedIntentsReversed(Tail(rated_intents))
             x == Head(rated_intents)
             \* x goes behind every pair that is not smaller
             n == Cardinality({k \in DOMAIN rest : rest[k][2] >= x[2]})
         IN SubSeq(rest, 1, n) \o <<x>> \o SubSeq(rest, n + 1, Len(rest))

\* sorted(rated_intents, key=lambda x: x[1], reverse=True): stable, descending
RECURSIVE SortedIntents(_)
SortedIntents(rated_intents) ==
    IF rated_intents = <<>> THEN <<>>
    ELSE LET rest == SortedIntents(SubSeq(rated_intents, 1, Len(rated_intents) - 1))
             x == rated_intents[Len(rated_intents)]
             \* x goes behind every pair that is not smaller
             n == Cardinality({k \in DOMAIN rest : rest[k][2] >= x[2]})
         IN SubSeq(rest, 1, n) \o <<x>> \o SubSeq(rest, n + 1, Len(rest))

\* the none intent with a confidence of 0
NoneEntryZero == <<NoneIntent, 0>>

\* (None, 1.0)
NoneEntry == <<NoneIntent, ConfidenceScale>>

\* detected_intent
DetectedIntent(sorted_intents) ==
    IF sorted_intents = <<>> THEN IndexError
    ELSE [kind |-> "return", value |-> sorted_intents[1][1]]

\* the none intent is inserted only below the threshold
NoneIfStrictlyBelow(sorted_intents, threshold) ==
    IF sorted_intents = <<>> THEN sorted_intents
    ELSE IF sorted_intents[1][2] < threshold
    THEN <<NoneEntry>> \o sorted_intents
    ELSE sorted_intents

\* noneIfBelow: __sorted_intents after the call (an empty list raises
\* IndexError and stays empty)
NoneIfBelow(sorted_intents, threshold) ==
    IF sorted_intents = <<>> THEN sorted_intents
    ELSE IF sorted_intents[1][2] <= threshold
    THEN <<NoneEntry>> \o sorted_intents
    ELSE sorted_intents

\* The rating is constructed from the pairs of the caller.
InitRating ==
    /\ \E rated_intents \in RatedIntents :
          rating = [rated_intents |-> rated_intents,
                    sorted_intents |-> SortedIntents(rated_intents),
                    thresholds |-> <<>>,
                    lists |-> <<SortedIntents(rated_intents)>>]
    /\ sorting = <<>>
    /\ engine = <<>>
    /\ confusion_matrix = <<>>
    /\ f1_scores = <<>>
    /\ validations = <<>>
    /\ report = <<>>
    /\ NoRun
    /\ NoDataSet

\* noneIfBelow(threshold) is called on the rating
CallNoneIfBelow ==
    /\ Len(rating.thresholds) < MaxThresholds
    /\ \E threshold \in Thresholds :
          LET after == NoneIfBelow(rating.sorted_intents, threshold)
          IN rating' = [rating EXCEPT
                           !.sorted_intents = after,
                           !.thresholds = Append(@, threshold),
                           !.lists = Append(@, after)]
    /\ UNCHANGED <<sorting, engine>>
    /\ UNCHANGED <<confusion_matrix, f1_scores, validations, report>>
    /\ UNCHANGED <<rp_vars, calls, run_vars, ds_vars>>

SpecRating == InitRating /\ [][CallNoneIfBelow]_vars

\* ------------------------------------------------- one engine on its own
\* NLUFramework.benchmark and IntentThresholdOptimizer.optimize drive one
\* engine through train, rateIntents for every validation entry, and
\* cleanupTraining. The data set hands out ValidationEntries validation
\* entries in every split.
\* what the engine rates a sentence with: the first intent with a
\* confidence of one grid step or of 1.0, or the second intent
RawRatings == {<<<<1, 1>>>>, <<<<1, ConfidenceScale>>>>, <<<<2, ConfidenceScale>>>>}

\* the validation data of a split: sentences of the first intent, the first
\* of them possibly without an intent
ValidationData ==
    {[k \in 1..ValidationEntries |->
         NLUDataEntry(k, IF k = 1 THEN first ELSE 1)] : first \in {NoneIntent, 1}}

\* OptimizableNLUFramework.rateIntents while the threshold is optimized:
\* the rating of the engine after noneIfBelow(0)
RateIntents(raw) == NoneIfBelow(SortedIntents(raw), 0)

\* while thresh < 1.: ... thresh += grid_step_size, for a step of
\* 1/ConfidenceScale: the thresholds in the order of insertion
GridThresholds == [k \in 1..ConfidenceScale |-> k - 1]

\* calc_f1_for_threshold: the threshold is applied to a copy of every rating
CalcF1ForThreshold(validation_data, ratings, threshold) ==
    LET thresholded == [k \in DOMAIN ratings |-> NoneIfBelow(ratings[k], threshold)]
        matrix == Validate(validation_data,
                           [k \in DOMAIN ratings |-> DetectedIntent(thresholded[k]).value])
        scores == ConfusionMatrixToF1Scores(matrix).value
    IN Mean(Values(DOMAIN scores, scores))

\* the grid of an iteration
Grid(validation_data, ratings) ==
    [k \in DOMAIN GridThresholds |->
        CalcF1ForThreshold(validation_data, ratings, GridThresholds[k])]

\* grids_avg[thresh]["mean"]
GridMean(grids, k) == Mean([i \in DOMAIN grids |-> grids[i][k]])

\* the last of the best thresholds wins
RECURSIVE MaxThresholdLast(_, _, _)
MaxThresholdLast(grids, k, t_max) ==
    IF k > Len(GridThresholds) THEN t_max
    ELSE MaxThresholdLast(grids, k + 1,
            IF ~Less(GridMean(grids, k), t_max.score)
            THEN [score |-> GridMean(grids, k), thresh |-> GridThresholds[k]]
            ELSE t_max)

\* for thresh, score_avg in grids_avg.items(): if score_avg["mean"] >
\* t_max["score"]: t_max = ...
RECURSIVE MaxThreshold(_, _, _)
MaxThreshold(grids, k, t_max) ==
    IF k > Len(GridThresholds) THEN t_max
    ELSE MaxThreshold(grids, k + 1,
            IF Less(t_max.score, GridMean(grids, k))
            THEN [score |-> GridMean(grids, k), thresh |-> GridThresholds[k]]
            ELSE t_max)

\* lines 61-89 of optimize for grid mappings that all have the same keys:
\* the threshold returned (no iteration: the mapping is empty)
Optimize(grids) ==
    IF grids = <<>> THEN 0
    ELSE MaxThreshold(grids, 1, [score |-> Number(0), thresh |-> 0]).thresh

NoCounts == [train |-> 0, rateIntents |-> 0, cleanupTraining |-> 0, reshuffle |-> 0]

\* benchmark or optimize is called for the engine: train is awaited
InitEngine ==
    /\ \E operation \in {"benchmark", "optimize"}, validation_data \in ValidationData :
          engine = [operation |-> operation,
                    iterations |-> IF operation = "optimize" THEN GridIterations ELSE 1,
                    i |-> 0,
                    call |-> "train",
                    validation |-> validation_data,
                    ratings |-> <<>>,
                    rated |-> <<>>,
                    exc |-> <<>>,
                    grids |-> <<>>,
                    counts |-> [NoCounts EXCEPT !.train = 1],
                    result |-> <<>>]
    /\ sorting = <<>>
    /\ rating = <<>>
    /\ confusion_matrix = <<>>
    /\ f1_scores = <<>>
    /\ validations = <<>>
    /\ report = <<>>
    /\ NoRun
    /\ NoDataSet

\* only the first entry is rated
AfterFirstRateIntents(k) == "cleanupTraining"

\* the call that follows the k-th rateIntents call of a pass
AfterRateIntents(k) ==
    IF k < ValidationEntries THEN "rateIntents" ELSE "cleanupTraining"

\* the calls made so far and one more call `name`
Count(counts, name) == [counts EXCEPT ![name] = @ + 1]

\* benchmark after cleanupTraining returned: the confusion matrix, or the
\* exception that was propagating
BenchmarkEnds ==
    [engine EXCEPT
        !.call = "done",
        !.i = IF engine.exc = <<>> THEN 1 ELSE 0,
        !.result =
            IF engine.exc # <<>>
            THEN <<[kind |-> "raise", exc |-> engine.exc[1], context |-> <<>>]>>
            ELSE <<[kind |-> "return",
                    value |-> Validate(engine.validation,
                                 [k \in DOMAIN engine.ratings |->
                                     DetectedIntent(engine.ratings[k]).value])]>>]

\* __iteration after cleanupTraining returned without an exception
\* propagating, and optimize after it: the data set is reshuffled, the grid
\* is computed and collected; the next iteration begins or the threshold is
\* returned
IterationEnds(validation_data) ==
    LET grids == Append(engine.grids, Grid(engine.validation, engine.ratings))
        last == engine.i + 1 = engine.iterations
    IN [engine EXCEPT
           !.i = @ + 1,
           !.grids = grids,
           !.validation = validation_data,
           !.ratings = <<>>,
           !.rated = <<>>,
           !.call = IF last THEN "done" ELSE "train",
           !.counts = IF last THEN Count(@, "reshuffle")
                      ELSE Count(Count(@, "reshuffle"), "train"),
           !.result = IF last
                      THEN <<[kind |-> "return", value |-> Optimize(grids)]>>
                      ELSE <<>>]

\* the call the engine is working on returns
EngineReturns ==
    /\ engine.call # "done"
    /\ \/ /\ engine.call = "train"
          /\ engine' = [engine EXCEPT !.call = "rateIntents",
                                      !.counts = Count(@, "rateIntents"),
                                      !.rated = Append(@, engine.validation[1][1])]
       \/ /\ engine.call = "rateIntents"
          /\ \E raw \in RawRatings :
                LET k == Len(engine.ratings) + 1
                    next == AfterRateIntents(k)
                IN engine' = [engine EXCEPT
                      !.ratings = Append(@, IF engine.operation = "optimize"
                                            THEN RateIntents(raw)
                                            ELSE SortedIntents(raw)),
                      !.call = next,
                      !.counts = Count(@, next),
                      !.rated = IF next = "rateIntents"
                                THEN Append(@, engine.validation[k + 1][1]) ELSE @]
       \/ /\ engine.call = "cleanupTraining"
          /\ IF engine.operation = "benchmark"
             THEN engine' = BenchmarkEnds
             ELSE IF engine.exc # <<>>
             THEN engine' = [engine EXCEPT
                     !.call = "done",
                     !.result = <<[kind |-> "raise", exc |-> engine.exc[1],
                                   context |-> <<>>]>>]
             ELSE \E validation_data \in ValidationData :
                     engine' = IterationEnds(validation_data)
    /\ UNCHANGED <<sorting, rating>>
    /\ UNCHANGED <<confusion_matrix, f1_scores, validations, report>>
    /\ UNCHANGED <<rp_vars, calls, run_vars, ds_vars>>

\* the error leaves the pass at once
PassFailsWithoutCleanup(name) ==
    [engine EXCEPT
        !.call = "done",
        !.exc = <<name>>,
        !.result = <<[kind |-> "raise", exc |-> name, context |-> <<>>]>>]

\* train or rateIntents raised: finally: await framework.cleanupTraining()
PassFails(name) ==
    [engine EXCEPT
        !.call = "cleanupTraining",
        !.exc = <<name>>,
        !.counts = Count(@, "cleanupTraining")]

\* the call the engine is working on raises
EngineRaises ==
    /\ engine.call # "done"
    /\ IF engine.call = "cleanupTraining"
       THEN engine' = [engine EXCEPT
               !.call = "done",
               !.result = <<[kind |-> "raise", exc |-> "cleanupTraining",
                             context |-> engine.exc]>>]
       ELSE engine' = PassFails(engine.call)
    /\ UNCHANGED <<sorting, rating>>
    /\ UNCHANGED <<confusion_matrix, f1_scores, validations, report>>
    /\ UNCHANGED <<rp_vars, calls, run_vars, ds_vars>>

NextEngine == EngineReturns \/ EngineRaises

SpecEngine == InitEngine /\ [][NextEngine]_vars

\* ------------------------------------------- the grid search of __iteration
\* Lines 115-134 of __iteration for one engine, after its ratings have been
\* collected. Thresholds and step sizes are multiples of 1/ConfidenceScale as
\* the confidences are: 1.0 is ConfidenceScale.
GridStepSizes == 0..(ConfidenceScale + 1)

\* what the engine returned for the validation entries of a pass
CollectedRatings ==
    {[k \in 1..ValidationEntries |-> RateIntents(raw[k])] :
        raw \in [1..ValidationEntries -> RawRatings]}

\* thresholded_ratings = ratings: noneIfBelow changes the collected ratings
WithoutCopy(ratings, thresholded) == thresholded

\* thresholded_ratings = copy.deepcopy(ratings): `ratings` after noneIfBelow
\* was called on every element of the copy
DeepCopy(ratings, thresholded) == ratings

\* the threshold is never advanced
SameThreshold(thresh, grid_step_size) == thresh

\* thresh += grid_step_size
NextThreshold(thresh, grid_step_size) == thresh + grid_step_size

\* a pass of __iteration has collected its ratings: thresh = 0.
GridSearch(i, grid_step_size, validation_data, ratings) ==
    [call |-> "grid", iterations |-> GridIterations, i |-> i,
     grid_step_size |-> grid_step_size, validation |-> validation_data,
     collected |-> ratings, ratings |-> ratings, thresh |-> 0, grid |-> <<>>]

InitGrid ==
    /\ \E grid_step_size \in GridStepSizes, validation_data \in ValidationData,
          ratings \in CollectedRatings :
          engine = GridSearch(0, grid_step_size, validation_data, ratings)
    /\ sorting = <<>>
    /\ rating = <<>>
    /\ confusion_matrix = <<>>
    /\ f1_scores = <<>>
    /\ validations = <<>>
    /\ report = <<>>
    /\ NoRun
    /\ NoDataSet

\* calc_f1_for_threshold after its loop over the thresholded ratings: the
\* confusion matrix, its F1 scores and their mean
ScoreOf(validation_data, thresholded) ==
    LET matrix == Validate(validation_data,
                           [k \in DOMAIN thresholded |->
                               DetectedIntent(thresholded[k]).value])
        scores == ConfusionMatrixToF1Scores(matrix).value
    IN Mean(Values(DOMAIN scores, scores))

\* while thresh < 1.: grid[thresh] = calc_f1_for_threshold(thresh);
\* thresh += grid_step_size. The grid is kept as the thresholded ratings of
\* each threshold, of which the score is the function ScoreOf.
GridStep ==
    /\ engine.call = "grid"
    /\ engine.thresh < ConfidenceScale
    /\ LET thresholded == [k \in DOMAIN engine.ratings |->
                              NoneIfBelow(engine.ratings[k], engine.thresh)]
       IN engine' = [engine EXCEPT
             !.ratings = DeepCopy(@, thresholded),
             !.grid = [t \in DOMAIN @ \cup {engine.thresh} |->
                          IF t = engine.thresh THEN thresholded ELSE @[t]],
             !.thresh = NextThreshold(@, engine.grid_step_size)]
    /\ UNCHANGED <<sorting, rating>>
    /\ UNCHANGED <<confusion_matrix, f1_scores, validations, report>>
    /\ UNCHANGED <<rp_vars, calls, run_vars, ds_vars>>

\* the loop has ended: __iteration returns the grid. optimize starts the next
\* iteration, whose engine calls return the ratings of a new split, or leaves
\* its loop.
GridReturns ==
    /\ engine.call = "grid"
    /\ engine.thresh >= ConfidenceScale
    /\ IF engine.i + 1 < engine.iterations
       THEN \E validation_data \in ValidationData, ratings \in CollectedRatings :
               engine' = GridSearch(engine.i + 1, engine.grid_step_size,
                                    validation_data, ratings)
       ELSE engine' = [engine EXCEPT !.call = "done", !.i = @ + 1]
    /\ UNCHANGED <<sorting, rating>>
    /\ UNCHANGED <<confusion_matrix, f1_scores, validations, report>>
    /\ UNCHANGED <<rp_vars, calls, run_vars, ds_vars>>

NextGrid == GridStep \/ GridReturns

SpecGrid == InitGrid /\ [][NextGrid]_vars

\* the loop is running code and the engine calls of a pass return
SpecGridFair == SpecGrid /\ WF_vars(GridStep) /\ WF_vars(GridReturns)

\* ------------------------------- the intent threshold of one engine in a run
\* OptimizableNLUFramework.prepareDataSet and rateIntents of one engine over
\* the data sets of a run: the passes of the optimizer inside prepareDataSet,
\* then the benchmark passes of the iterations. Thresholds are multiples of
\* 1/ConfidenceScale.
\* the optimization begins with the threshold the engine has
KeepThreshold(intent_threshold) == intent_threshold

\* self.__intent_threshold = 0
ResetThreshold(intent_threshold) == 0

\* what optimize can return: 0. or a threshold of the grid
OptimizedThresholds == {GridThresholds[k] : k \in DOMAIN GridThresholds}

\* the engine awaits _prepareDataSet for data set d
PrepareDataSet(e, d) ==
    [e EXCEPT !.data_set = d, !.call = "_prepareDataSet", !.passes = 0, !.k = 0]

\* construct has stored the arguments; prepareDataSet is called for the
\* first data set
InitThreshold ==
    /\ \E intent_threshold \in Confidences, flag \in BOOLEAN :
          engine = PrepareDataSet(
             [optimize_intent_threshold |-> flag,
              intent_threshold |-> intent_threshold,
              data_set |-> 0, call |-> "construct", passes |-> 0, k |-> 0,
              rated |-> {}, optimized |-> <<>>], 1)
    /\ sorting = <<>>
    /\ rating = <<>>
    /\ confusion_matrix = <<>>
    /\ f1_scores = <<>>
    /\ validations = <<>>
    /\ report = <<>>
    /\ NoRun
    /\ NoDataSet

\* a pass of train, rateIntents for every validation entry, cleanupTraining
\* begins: `name` is "optimize" or "benchmark"
Pass(e, name, passes) ==
    [e EXCEPT !.call = name, !.passes = passes, !.k = NumValidation]

\* lines 48-51: _prepareDataSet has returned
PrepareDataSetReturns ==
    /\ engine.call = "_prepareDataSet"
    /\ engine' =
          IF engine.optimize_intent_threshold
          THEN [Pass(engine, "optimize", OptimizerIterations) EXCEPT
                   !.intent_threshold = ResetThreshold(@)]
          ELSE Pass(engine, "benchmark", NumIterations)
    /\ UNCHANGED <<sorting, rating>>
    /\ UNCHANGED <<confusion_matrix, f1_scores, validations, report>>
    /\ UNCHANGED <<rp_vars, calls, run_vars, ds_vars>>

\* lines 68-73: rateIntents is called in a pass and applies the threshold
\* the engine has
RateIntentsReturns ==
    /\ engine.call \in {"optimize", "benchmark"}
    /\ engine.passes > 0
    /\ engine.k > 0
    /\ engine' = [engine EXCEPT
          !.k = @ - 1,
          !.rated = @ \cup {<<engine.data_set, engine.call,
                              engine.intent_threshold>>}]
    /\ UNCHANGED <<sorting, rating>>
    /\ UNCHANGED <<confusion_matrix, f1_scores, validations, report>>
    /\ UNCHANGED <<rp_vars, calls, run_vars, ds_vars>>

\* the validation entries of a pass are rated: the next pass begins
PassEnds ==
    /\ engine.call \in {"optimize", "benchmark"}
    /\ engine.passes > 0
    /\ engine.k = 0
    /\ engine' = Pass(engine, engine.call, engine.passes - 1)
    /\ UNCHANGED <<sorting, rating>>
    /\ UNCHANGED <<confusion_matrix, f1_scores, validations, report>>
    /\ UNCHANGED <<rp_vars, calls, run_vars, ds_vars>>

\* line 52: optimize returns and its value is stored; the benchmark passes
\* follow
OptimizeReturns ==
    /\ engine.call = "optimize"
    /\ engine.passes = 0
    /\ \E thresh \in OptimizedThresholds :
          engine' = [Pass(engine, "benchmark", NumIterations) EXCEPT
                        !.intent_threshold = thresh,
                        !.optimized = Append(@, thresh)]
    /\ UNCHANGED <<sorting, rating>>
    /\ UNCHANGED <<confusion_matrix, f1_scores, validations, report>>
    /\ UNCHANGED <<rp_vars, calls, run_vars, ds_vars>>

\* a call of a pass of the optimizer raises: prepareDataSet raises
OptimizeRaises ==
    /\ engine.call = "optimize"
    /\ engine.passes > 0
    /\ engine' = [engine EXCEPT !.call = "raised"]
    /\ UNCHANGED <<sorting, rating>>
    /\ UNCHANGED <<confusion_matrix, f1_scores, validations, report>>
    /\ UNCHANGED <<rp_vars, calls, run_vars, ds_vars>>

\* a call of a benchmark pass raises: __run leaves its loops and the engine
\* is destructed
BenchmarkRaises ==
    /\ engine.call = "benchmark"
    /\ engine.passes > 0
    /\ engine' = [engine EXCEPT !.call = "destruct"]
    /\ UNCHANGED <<sorting, rating>>
    /\ UNCHANGED <<confusion_matrix, f1_scores, validations, report>>
    /\ UNCHANGED <<rp_vars, calls, run_vars, ds_vars>>

\* the iterations of the data set are over: the next data set is prepared
DataSetEnds ==
    /\ engine.call = "benchmark"
    /\ engine.passes = 0
    /\ engine' = IF engine.data_set < NumDataSets
                 THEN PrepareDataSet(engine, engine.data_set + 1)
                 ELSE [engine EXCEPT !.call = "destruct"]
    /\ UNCHANGED <<sorting, rating>>
    /\ UNCHANGED <<confusion_matrix, f1_scores, validations, report>>
    /\ UNCHANGED <<rp_vars, calls, run_vars, ds_vars>>

NextThresholdOfEngine ==
    \/ PrepareDataSetReturns
    \/ RateIntentsReturns
    \/ PassEnds
    \/ OptimizeReturns
    \/ OptimizeRaises
    \/ BenchmarkRaises
    \/ DataSetEnds

SpecThreshold == InitThreshold /\ [][NextThresholdOfEngine]_vars

\* ================================================================ claims
OpSucceeded(j) == outcome[j] # Pending /\ ~IsException(outcome[j])

OpFailed(j) == IsException(outcome[j])

Finished == rp_pc \in {"returned", "raised"}

RollbackCalls(o) == CopiesIn(<<o, "rollback_op", 0>>, calls)

RollbackFailed(j) == IsException(rollback_outcome[j])

\* C1: when every operation has succeeded, run_in_parallel returns one result
\* per object, result i being the result of the operation on object i whatever
\* the order of completion, and rollback_op has not been invoked.
C1_ResultsIndexAligned ==
    (Finished /\ \A j \in DOMAIN outcome : OpSucceeded(j)) =>
        /\ rp_pc = "returned"
        /\ rp_result.kind = "return"
        /\ Len(rp_result.value) = Len(objects)
        /\ \A i \in DOMAIN objects : rp_result.value[i] = Result("op", objects[i])
        /\ \A o \in Objects : RollbackCalls(o) = 0

\* three distinct objects finished in reverse order, with a rollback given
C1_Witness ==
    /\ rp_pc = "returned"
    /\ rollback_op # "None"
    /\ objects = <<1, 2, 3>>
    /\ order = <<3, 2, 1>>

\* C2: with a failing operation and a rollback function, rollback_op is
\* invoked exactly once per succeeded operation and never for a failed one, and
\* the ParallelException lists every failed object with its error and every
\* failed rollback with object, operation result and rollback error.
C2_RollbackOncePerSucceeded ==
    (rollback_op # "None" /\ rp_pc \in {"gather_rollback", "raised"}) =>
        /\ \A o \in Objects : RollbackCalls(o) =
              Cardinality({j \in DOMAIN objects : objects[j] = o /\ OpSucceeded(j)})
        /\ rp_pc = "raised" =>
              LET e == rp_result.exc
              IN /\ e.type = "ParallelException"
                 /\ Len(e.operation_exceptions) =
                       Cardinality({j \in DOMAIN outcome : OpFailed(j)})
                 /\ \A j \in DOMAIN outcome : OpFailed(j) =>
                       \E k \in DOMAIN e.operation_exceptions :
                          e.operation_exceptions[k] = <<outcome[j], objects[j]>>
                 /\ Len(e.rollback_exceptions) =
                       Cardinality({j \in DOMAIN rollback_outcome : RollbackFailed(j)})
                 /\ \A j \in DOMAIN rollback_outcome : RollbackFailed(j) =>
                       \E k \in DOMAIN e.rollback_exceptions :
                          e.rollback_exceptions[k] =
                             <<rollback_outcome[j], succeeded[j][1], succeeded[j][2]>>

\* one operation failed, one rollback failed and one rollback succeeded
C2_Witness ==
    /\ rp_pc = "raised"
    /\ rollback_op # "None"
    /\ Len(objects) = 3
    /\ \E j \in DOMAIN outcome : OpFailed(j)
    /\ \E j \in DOMAIN rollback_outcome : RollbackFailed(j)
    /\ \E j \in DOMAIN rollback_outcome : ~RollbackFailed(j)

\* C3: run_in_parallel returns a full result list exactly when no operation
\* failed and raises a ParallelException otherwise; without rollback_op no
\* rollback is invoked and rollback_exceptions is empty.
C3_AllOrNothing ==
    /\ Finished => (rp_pc = "returned" <=> \A j \in DOMAIN outcome : ~OpFailed(j))
    /\ rp_pc = "returned" =>
          /\ rp_result.kind = "return"
          /\ Len(rp_result.value) = Len(objects)
          /\ \A i \in DOMAIN rp_result.value : ~IsException(rp_result.value[i])
    /\ rp_pc # "returned" => rp_result.kind # "return"
    /\ rp_pc = "raised" =>
          /\ rp_result.kind = "raise"
          /\ rp_result.exc.type = "ParallelException"
    /\ rollback_op = "None" =>
          /\ \A o \in Objects : RollbackCalls(o) = 0
          /\ rp_result.exc.rollback_exceptions = <<>>

\* no rollback function, some operations succeeded and one failed
C3_Witness ==
    /\ rp_pc = "raised"
    /\ rollback_op = "None"
    /\ \E j \in DOMAIN outcome : OpFailed(j)
    /\ \E j \in DOMAIN outcome : OpSucceeded(j)


Calls(f, name, d) == CopiesIn(<<f, name, d>>, calls)

Outstanding(name) == \E j \in DOMAIN task : task[j].call = name

\* C4: in every execution of run destruct is invoked exactly once on every
\* engine, whatever happened before, and only after every unprepareDataSet
\* invocation of the run has completed (none is outstanding, none follows).
C4_DestructOnceAfterUnprepare ==
    /\ [](/\ \A f \in Frameworks : Calls(f, "destruct", 0) <= 1
          /\ pc = "done" => \A f \in Frameworks : Calls(f, "destruct", 0) = 1
          /\ (\E f \in Frameworks : Calls(f, "destruct", 0) > 0) =>
                ~Outstanding("unprepareDataSet"))
    /\ [][(\E f \in Frameworks : Calls(f, "destruct", 0) > 0) =>
             \A f \in Frameworks, d \in DataSets :
                CopiesIn(<<f, "unprepareDataSet", d>>, calls')
                   = Calls(f, "unprepareDataSet", d)]_vars

\* a cancelled run in which a train call and a destruct call failed
C4_Witness ==
    /\ pc = "done"
    /\ cancel_flag
    /\ \E r \in raised : r[3] = "train"
    /\ \E r \in raised : r[3] = "destruct"
    /\ \A f \in Frameworks : Calls(f, "destruct", 0) = 1

Started(d) == \E f \in Frameworks : Calls(f, "prepareDataSet", d) > 0

\* data set d is behind: the next one is being prepared or __run was left
Left(d) == data_set > d \/ (data_set = d /\ pc \in {"destruct", "done"})

\* C5 as claimed: for every data set whose preparation was started,
\* unprepareDataSet is invoked on all engines before the next data set is
\* prepared or the error leaves __run, on every exit path.
C5_UnprepareOnAllEngines ==
    \A d \in DataSets : (Started(d) /\ Left(d)) =>
        \A f \in Frameworks : Calls(f, "unprepareDataSet", d) >= 1

\* C5 as amended: for every data set whose preparation was started,
\* unprepareDataSet has been invoked, and has completed, exactly once on every
\* engine whose prepareDataSet succeeded and on no other engine (all engines
\* when the prepare batch succeeded) before the next data set is prepared or
\* the error leaves __run.
C5_UnprepareOnPreparedEngines ==
    /\ \A d \in DataSets : (Started(d) /\ Left(d)) =>
          \A f \in Frameworks : Calls(f, "unprepareDataSet", d) =
              IF <<f, d>> \in prepared THEN 1 ELSE 0
    /\ pc \in {"destruct", "done"} => ~Outstanding("unprepareDataSet")

\* the prepare batch of a data set failed for one engine, succeeded for another
C5_Witness ==
    /\ pc = "done"
    /\ \E d \in DataSets, f, g \in Frameworks :
          /\ <<f, d>> \in prepared
          /\ <<g, "prepareDataSet", "prepareDataSet", d>> \in raised
          /\ Calls(f, "unprepareDataSet", d) = 1
          /\ Calls(g, "unprepareDataSet", d) = 0

\* train/validate/cleanup passes of an engine per data set: the iterations of
\* the run and the optimizer iterations of its prepareDataSet
Passes(f) ==
    NumIterations + (IF optimize_intent_threshold[f] THEN OptimizerIterations ELSE 0)

NoCancellationSeen == \A r \in flag_reads : ~r[3]

\* C6: in a run without failure and cancellation every engine gets, per data
\* set, one prepareDataSet, NumIterations benchmarks (train, one rateIntents
\* per validation entry, cleanupTraining), one unprepareDataSet, and one
\* destruct; if a train call of a benchmark fails, unprepareDataSet is still
\* invoked once per engine for that data set and destruct once per engine.
C6_CallCounts ==
    pc = "done" =>
        /\ (raised = {} /\ NoCancellationSeen) =>
              \A f \in Frameworks :
                 /\ Calls(f, "destruct", 0) = 1
                 /\ \A d \in DataSets :
                       /\ Calls(f, "prepareDataSet", d) = 1
                       /\ Calls(f, "benchmark", d) = NumIterations
                       /\ Calls(f, "train", d) = Passes(f)
                       /\ Calls(f, "rateIntents", d) = Passes(f) * NumValidation
                       /\ Calls(f, "cleanupTraining", d) = Passes(f)
                       /\ Calls(f, "unprepareDataSet", d) = 1
        /\ \A r \in raised : (r[2] = "benchmark" /\ r[3] = "train") =>
              \A f \in Frameworks :
                 /\ Calls(f, "unprepareDataSet", r[4]) = 1
                 /\ Calls(f, "destruct", 0) = 1

\* a complete run of an optimizing and a plain engine
C6_Witness ==
    /\ pc = "done"
    /\ raised = {}
    /\ NoCancellationSeen
    /\ run_result = NoException
    /\ \E f, g \in Frameworks :
          optimize_intent_threshold[f] /\ ~optimize_intent_threshold[g]
    /\ \A f \in Frameworks : Calls(f, "benchmark", NumDataSets) = NumIterations

\* C7: createFrameworks returns the full list, with no destruct, when every
\* construction succeeds; otherwise it returns nothing, and destruct has been
\* invoked, and has completed, exactly once on every engine constructed
\* successfully when the ParallelException is raised.
C7_CreateFrameworksAtomic ==
    /\ \A f \in Configs : Calls(f, "destruct", 0) <= 1
    /\ rp_result.kind = "return" =>
          /\ \A j \in DOMAIN outcome : OpSucceeded(j)
          /\ rp_result.value = [f \in Configs |-> Result("create", f)]
          /\ \A f \in Configs : Calls(f, "destruct", 0) = 0
    /\ Finished =>
          IF \E j \in DOMAIN outcome : OpFailed(j)
          THEN /\ rp_pc = "raised"
               /\ rp_result.kind = "raise"
               /\ rp_result.exc.type = "ParallelException"
               /\ \A f \in Configs : Calls(f, "destruct", 0) =
                     IF OpSucceeded(f) THEN 1 ELSE 0
               /\ \A j \in DOMAIN rollback_outcome : rollback_outcome[j] # Pending
          ELSE rp_pc = "returned"

\* one construction failed, two engines were constructed and destructed
C7_Witness ==
    /\ rp_pc = "raised"
    /\ Cardinality({j \in DOMAIN outcome : OpSucceeded(j)}) = 2
    /\ \A j \in DOMAIN outcome : OpSucceeded(j) => Calls(j, "destruct", 0) = 1

\* C8 as claimed: reshuffle() of a data set is never invoked while an engine
\* has a train or rateIntents call outstanding on that data set.
C8_NoReshuffleDuringPass ==
    [][\A d \in DataSets : shuffles'[d] # shuffles[d] =>
          ~(d = data_set /\ (Outstanding("train") \/ Outstanding("rateIntents")))]_vars

CancelSeenAfterPreparation(d) == <<d, "prepared", TRUE>> \in flag_reads

\* C9 as claimed: if the cancel flag is set when the prepare batch of a data
\* set has succeeded, run starts no benchmark batch for it, unprepares and
\* destructs every engine, prepares no further data set and ends with
\* KeyboardInterrupt.
C9_CancelEndsWithKeyboardInterrupt ==
    \A d \in DataSets : (pc = "done" /\ CancelSeenAfterPreparation(d)) =>
        /\ \A f \in Frameworks :
              /\ Calls(f, "benchmark", d) = 0
              /\ Calls(f, "unprepareDataSet", d) = 1
              /\ Calls(f, "destruct", 0) = 1
              /\ \A e \in DataSets : e > d => Calls(f, "prepareDataSet", e) = 0
        /\ run_result.type = "KeyboardInterrupt"

UnprepareRaised(d) ==
    \E r \in raised : r[2] = "unprepareDataSet" /\ r[4] = d

DestructRaised == \E r \in raised : r[2] = "destruct"

\* C9 as amended: ... and ends with KeyboardInterrupt if every unprepareDataSet
\* and destruct call succeeds; if one of them fails, run ends with the
\* ParallelException of the failed batch (the destruct batch if both failed),
\* raised while the KeyboardInterrupt was propagating.
C9_CancelAfterPreparation ==
    \A d \in DataSets : CancelSeenAfterPreparation(d) =>
        /\ \A f \in Frameworks :
              /\ Calls(f, "benchmark", d) = 0
              /\ Calls(f, "unprepareDataSet", d) = 1
              /\ \A e \in DataSets : e > d => Calls(f, "prepareDataSet", e) = 0
              /\ Calls(f, "destruct", 0) = IF pc \in {"destruct", "done"} THEN 1 ELSE 0
        /\ pc = "unprepare" => pending = KeyboardInterrupt
        /\ pc = "done" =>
              <<run_result.type, run_result.message, ContextType(run_result)>> =
                 IF DestructRaised
                 THEN <<"ParallelException",
                        "Error deconstructing all frameworks.",
                        IF UnprepareRaised(d) THEN "ParallelException"
                        ELSE "KeyboardInterrupt">>
                 ELSE IF UnprepareRaised(d)
                 THEN <<"ParallelException",
                        "Error unpreparing all frameworks.",
                        "KeyboardInterrupt">>
                 ELSE <<"KeyboardInterrupt", "", "None">>

\* cancelled during the preparation of the first data set, all cleanup succeeds
C9_Witness ==
    /\ pc = "done"
    /\ CancelSeenAfterPreparation(1)
    /\ raised = {}
    /\ run_result = KeyboardInterrupt

\* C10: cancellation is cooperative: a call in flight is never aborted (a task
\* only changes by the engine completing its call), the flag is read only when
\* a prepare batch or a benchmark batch has returned, and no benchmark batch is
\* started once the flag is set.
C10_CooperativeCancellation ==
    [][/\ cancel_flag =>
             \A f \in Frameworks, d \in DataSets :
                CopiesIn(<<f, "benchmark", d>>, calls') = Calls(f, "benchmark", d)
       /\ \A j \in DOMAIN task : task[j].call # "done" =>
             /\ j \in DOMAIN task'
             /\ task'[j] \in {task[j],
                              Returns(Running, task[j], Target(j)).task,
                              Raises(Running, task[j], Target(j)).task}
       /\ flag_reads' # flag_reads =>
             /\ pc \in {"prepare", "benchmark"}
             /\ rp_pc = "returned"
             /\ AllDone]_vars

\* cancel() was called during the first benchmark batch of a data set, which
\* completed; the remaining iterations were skipped
C10_Witness ==
    /\ pc = "unprepare"
    /\ pending = KeyboardInterrupt
    /\ iteration = 0
    /\ <<data_set, "prepared", FALSE>> \in flag_reads
    /\ <<data_set, "iteration", TRUE>> \in flag_reads
    /\ \A f \in Frameworks : Calls(f, "benchmark", data_set) = 1

\* C11: the cancel flag is monotonic: no step of a run, no getInstance and no
\* repeated cancel resets it once it is set.
C11_CancelFlagMonotonic == [][cancel_flag => cancel_flag']_vars

\* cancel() came after the last checkpoint: the run completed, the flag is set
C11_Witness ==
    /\ pc = "done"
    /\ cancel_flag
    /\ run_result = NoException
    /\ NoCancellationSeen

\* the calls an engine error of the claim is raised by
EngineCalls == {"prepareDataSet", "train", "rateIntents", "cleanupTraining"}

\* the engine errors an exception lists: the failed operations and rollbacks
Listed(e) ==
    {e.operation_exceptions[k][1] : k \in DOMAIN e.operation_exceptions}
        \cup {e.rollback_exceptions[k][1] : k \in DOMAIN e.rollback_exceptions}

\* an exception and the exceptions it replaced, along __context__
RECURSIVE ContextChain(_)
ContextChain(e) ==
    {e} \cup (IF e.context = <<>> THEN {} ELSE ContextChain(e.context[1]))

\* an engine error and the engine error it replaced in the engine's finally
WithReplaced(x) == IF x[4] = "" THEN {x} ELSE {x, Error(x[4], x[3], "")}

InChain(e) ==
    UNION {WithReplaced(x) : x \in UNION {Listed(c) : c \in ContextChain(e)}}

EngineErrors == {r \in raised : r[3] \in EngineCalls}

\* C12 as claimed: every error an engine raised in prepareDataSet, train,
\* rateIntents or cleanupTraining is listed by the error that leaves run, also
\* when a later cleanupTraining, unprepareDataSet or destruct failed.
C12_ErrorNeverReplaced ==
    pc = "done" =>
        \A r \in EngineErrors :
           \E x \in Listed(run_result) : x[2] = r[3] /\ x[3] = r[1]

\* C12 as amended: run ends with a ParallelException, and every such error is
\* listed by it or by an exception of its __context__ chain, or is the
\* __context__ of a listed cleanupTraining error of the same engine.
C12_ErrorCarriedInChain ==
    (pc = "done" /\ EngineErrors # {}) =>
        /\ run_result.type = "ParallelException"
        /\ \A r \in EngineErrors :
              \E x \in InChain(run_result) : x[2] = r[3] /\ x[3] = r[1]

\* a train call of a benchmark failed, then an unprepareDataSet call failed
C12_Witness ==
    /\ pc = "done"
    /\ \E r \in raised : r[2] = "benchmark" /\ r[3] = "train"
    /\ \E r \in raised : r[2] = "unprepareDataSet"
    /\ run_result.message = "Error unpreparing all frameworks."

\* the data set was constructed and its last reshuffle returned normally
Usable == ds_pc \in {"constructed", "reshuffled"}

Range(s) == {s[i] : i \in DOMAIN s}

\* the number of loaded entries with an intent
NumWithIntent == Cardinality({i \in DOMAIN loaded : IntentOf(loaded[i]) # NoneIntent})

\* C13: after construction and after every reshuffle that returned normally,
\* training and validation data are non-empty, the validation data holds every
\* None-intent entry and the training data holds none.
C13_SplitInvariant ==
    Usable =>
        /\ training # <<>>
        /\ validation # <<>>
        /\ \A i \in DOMAIN loaded :
              IntentOf(loaded[i]) = NoneIntent => loaded[i] \in Range(validation)
        /\ \A i \in DOMAIN training : IntentOf(training[i]) # NoneIntent

\* a reshuffled data set with a None-intent entry, in a new order
C13_Witness ==
    /\ ds_pc = "reshuffled"
    /\ Len(none_data) = 1
    /\ data # WithIntent(loaded)
    /\ Len(validation) = 2
    /\ validation_percentage = 99

\* the validation entries with an intent
ValidationWithIntent == {i \in DOMAIN validation : IntentOf(validation[i]) # NoneIntent}

\* C14: with N entries with an intent and percentage P, the validation part
\* (None-entries excluded) and the training part differ by at most 1 from P%
\* and (100-P)% of N, at P = 50 the two sizes differ by at most 1, they sum
\* to N, and the construction raises when a half would be empty.
C14_SplitSizes ==
    LET N == NumWithIntent
        P == validation_percentage
        V == Cardinality(ValidationWithIntent)
        T == Len(training)
    IN /\ Usable =>
             /\ 100 * V <= P * N /\ P * N < 100 * (V + 1)
             /\ 100 * (T - 1) < (100 - P) * N /\ (100 - P) * N <= 100 * T
             /\ V + T = N
             /\ P = 50 => (T - V \in {0, 1})
       /\ (ds_pc # "new" /\ (P * N < 100 \/ (100 - P) * N = 0)) => ds_pc = "raised"

\* three entries with an intent split at 50 percent
C14_Witness ==
    /\ ds_pc = "reshuffled"
    /\ validation_percentage = 50
    /\ NumWithIntent = 3
    /\ Len(loaded) = 3
    /\ Len(training) = 2
    /\ Cardinality(ValidationWithIntent) = 1

\* C15: after construction and after every successful reshuffle every loaded
\* entry is in exactly one of training data and validation data.
C15_Partition ==
    Usable =>
        /\ Len(training) + Len(validation) = Len(loaded)
        /\ Range(training) \cup Range(validation) = Range(loaded)
        /\ Range(training) \cap Range(validation) = {}

\* a reshuffled data set of entries with and without an intent
C15_Witness ==
    /\ ds_pc = "reshuffled"
    /\ Len(loaded) = MaxEntries
    /\ Len(none_data) = 1
    /\ Len(training) = 1
    /\ Len(validation) = MaxEntries - 1

\* C16: reading training_data or validation_data does not change the data
\* set, two reads without a reshuffle in between return equal sequences, and
\* removing an element from a returned list leaves the split unchanged.
C16_ReadsReturnCopies ==
    [][/\ (reads.training_data # <<>> /\ reads'.training_data # <<>>) =>
             reads'.training_data = reads.training_data
       /\ (reads.validation_data # <<>> /\ reads'.validation_data # <<>>) =>
             reads'.validation_data = reads.validation_data
       /\ (Usable /\ held' # held /\ data' = data /\ ds_pc' = ds_pc) =>
             /\ training' = training
             /\ validation' = validation]_vars

\* both properties were read, an element was removed from the returned
\* validation list, and the data set still has its full split
C16_Witness ==
    /\ Usable
    /\ reads.training_data = <<training>>
    /\ reads.validation_data = <<validation>>
    /\ held # <<>>
    /\ Len(validation) >= 2
    /\ held[1].value = SubSeq(validation, 1, Len(validation) - 1)

\* tp, fn and fp of an expected intent as the claim defines them
TruePositives(i) == confusion_matrix[i][i]

FalseNegatives(i) ==
    SumOver(DOMAIN confusion_matrix[i] \ {i}, confusion_matrix[i])

FalsePositives(i) ==
    SumOver(DOMAIN confusion_matrix \ {i},
            [e \in DOMAIN confusion_matrix |-> confusion_matrix[e][i]])

Scored == f1_scores # <<>> /\ f1_scores[1].kind = "return"

\* C17: for every expected intent the score is 0 when tp = 0, 100 when
\* tp > 0 and fp = fn = 0, and 200*tp/(2*tp+fp+fn) in general.
C17_F1Score ==
    f1_scores # <<>> =>
        /\ f1_scores[1].kind = "return"
        /\ \A i \in DOMAIN confusion_matrix :
              LET tp == TruePositives(i)
                  fn == FalseNegatives(i)
                  fp == FalsePositives(i)
                  score == f1_scores[1].value[i]
              IN /\ tp = 0 => score = <<0, 1>>
                 /\ (tp > 0 /\ fp = 0 /\ fn = 0) => score = <<100, 1>>
                 /\ tp > 0 => score[1] * (2 * tp + fp + fn) = 200 * tp * score[2]

\* an intent with one true positive, one false negative and two false
\* positives scores 200*1/(2+1+2) = 40
C17_Witness ==
    /\ Scored
    /\ \E i \in DOMAIN confusion_matrix :
          /\ TruePositives(i) = 1
          /\ FalseNegatives(i) = 1
          /\ FalsePositives(i) = 2
          /\ f1_scores[1].value[i] = <<40, 1>>

\* the intents of a matrix with at least one counted sentence in their row
KeysWithSentences(matrix) ==
    {i \in DOMAIN matrix : \E dt \in DOMAIN matrix[i] : matrix[i][dt] > 0}

\* C18 as claimed: the result has an entry exactly for the intents that are
\* an expected label of at least one counted sentence, and none for an intent
\* whose row is empty: rows A = {B: 1}, B = {} give the single entry A.
C18_EntriesForCountedRows ==
    Scored => DOMAIN f1_scores[1].value = KeysWithSentences(confusion_matrix)

Reported == report # <<>>

\* the iterations in whose validation pass the intent was an expected label
IterationsExpecting(intent) ==
    {k \in DOMAIN validations :
        \E j \in DOMAIN validations[k] : IntentOf(validations[k][j]) = intent}

\* the F1 scores of an engine for an intent in these iterations, in order
RECURSIVE ScoresOfIterations(_, _, _)
ScoresOfIterations(k, f, intent) ==
    IF k = 0 THEN <<>>
    ELSE ScoresOfIterations(k - 1, f, intent)
         \o (IF k \in IterationsExpecting(intent)
             THEN <<F1Score(intent, iterations[k][data_set][f])>> ELSE <<>>)

\* C19 as claimed: the statistics of an engine contain an intent exactly when
\* it was an expected label in the validation pass of at least one iteration,
\* and then with the population mean and the population variance of the F1
\* scores of exactly these iterations.
C19_StatisticsOfExpectedIntents ==
    Reported =>
        \A f \in Frameworks : \A intent \in {NoneIntent} \cup Intents :
            LET statistics == report[1].performances[f]
                scores == ScoresOfIterations(Len(iterations), f, intent)
            IN /\ intent \in DOMAIN statistics <=> IterationsExpecting(intent) # {}
               /\ intent \in DOMAIN statistics /\ scores # <<>> =>
                     statistics[intent] = Performance(Mean(scores), Variance(scores))

\* C20 as claimed: every engine operation succeeded and nothing was
\* cancelled, so run returns with a statistics map and a summary for every
\* engine and a ranking that lists every engine exactly once.
C20_FullyPopulatedResult ==
    Reported =>
        /\ report[1].kind = "return"
        /\ DOMAIN report[1].performances = Frameworks
        /\ DOMAIN report[1].merged = Frameworks
        /\ Len(report[1].ranking) = NumFrameworks
        /\ \A f \in Frameworks :
              \E k \in DOMAIN report[1].ranking :
                 report[1].ranking[k] = <<f, report[1].merged[f]>>

\* the ranking __sortPerformances returned
Ranking == sorting.result[1]

\* the position of the engine ranked k-th in the order of insertion
Encountered(k) == Ranking[k][1]

\* C21: the ranking lists every engine once, by summary mean in descending
\* order, and engines with equal summary means in the order of insertion.
C21_RankingStableDescending ==
    (sorting # <<>> /\ sorting.result # <<>>) =>
        /\ Len(Ranking) = Len(sorting.performances)
        /\ \A k \in DOMAIN Ranking :
              Ranking[k] = <<Encountered(k), sorting.performances[Encountered(k)]>>
        /\ \A k, l \in DOMAIN Ranking :
              k < l =>
                 /\ Encountered(k) # Encountered(l)
                 /\ ~Less(Ranking[k][2].mean, Ranking[l][2].mean)
                 /\ Ranking[k][2].mean = Ranking[l][2].mean =>
                        Encountered(k) < Encountered(l)

\* three engines with the means 50, 100, 50 are ranked second, first, third
C21_Witness ==
    /\ sorting # <<>>
    /\ sorting.result # <<>>
    /\ Len(sorting.performances) = 3
    /\ [k \in 1..3 |-> sorting.performances[k].mean] =
          <<Number(50), Number(100), Number(50)>>
    /\ [k \in 1..3 |-> Encountered(k)] = <<2, 1, 3>>

\* the rating is one of the analysis of NLUIntentRating
Rated == rating # <<>>

\* the list is ordered by descending confidence
Descending(list) ==
    \A k, l \in DOMAIN list : k < l => list[k][2] >= list[l][2]

\* list holds the pairs of input, those with equal confidences in the order
\* they have in input
StablyOrdered(input, list) ==
    /\ Len(list) = Len(input)
    /\ \E p \in Permutations(DOMAIN input) :
          /\ \A k \in DOMAIN list : list[k] = input[p[k]]
          /\ \A k, l \in DOMAIN list :
                (k < l /\ list[k][2] = list[l][2]) => p[k] < p[l]

\* C22: after the construction and after every noneIfBelow call the list is
\* ordered by descending confidence; the constructed list holds the pairs of
\* the caller, equal confidences in their input order; the detected intent
\* is the intent of the first element.
C22_OrderedDescending ==
    Rated =>
        /\ \A k \in DOMAIN rating.lists : Descending(rating.lists[k])
        /\ StablyOrdered(rating.rated_intents, rating.lists[1])
        /\ Descending(rating.sorted_intents)
        /\ rating.sorted_intents # <<>> =>
              /\ DetectedIntent(rating.sorted_intents).kind = "return"
              /\ \E k \in DOMAIN rating.sorted_intents :
                    /\ rating.sorted_intents[k][1] =
                          DetectedIntent(rating.sorted_intents).value
                    /\ \A l \in DOMAIN rating.sorted_intents :
                          /\ rating.sorted_intents[l][2] <= rating.sorted_intents[k][2]
                          /\ l < k => rating.sorted_intents[l][2] < rating.sorted_intents[k][2]

\* two pairs with equal confidences behind a greater one, and two insertions
C22_Witness ==
    /\ Rated
    /\ Len(rating.rated_intents) = 2
    /\ rating.rated_intents[1][1] = 2
    /\ rating.rated_intents[2][1] = 1
    /\ rating.rated_intents[1][2] = rating.rated_intents[2][2]
    /\ rating.thresholds = <<ConfidenceScale, ConfidenceScale>>
    /\ rating.sorted_intents = <<NoneEntry, NoneEntry>> \o rating.rated_intents

\* C23: the boundary of noneIfBelow is inclusive: a top confidence less than
\* or equal to the threshold puts (none, 1.0) in front of the unchanged
\* pairs and the detected intent is none; a greater one changes nothing.
C23_InclusiveBoundary ==
    Rated =>
        \A k \in DOMAIN rating.thresholds :
            LET before == rating.lists[k]
                after == rating.lists[k + 1]
            IN before # <<>> =>
                  /\ before[1][2] <= rating.thresholds[k] =>
                        /\ after = <<<<NoneIntent, ConfidenceScale>>>> \o before
                        /\ DetectedIntent(after).value = NoneIntent
                  /\ before[1][2] > rating.thresholds[k] => after = before

\* the top confidence equals the threshold: the none intent is detected
C23_Witness ==
    /\ Rated
    /\ Len(rating.thresholds) = 1
    /\ Len(rating.rated_intents) = 2
    /\ rating.lists[1][1][2] = rating.thresholds[1]
    /\ rating.thresholds[1] < ConfidenceScale
    /\ rating.lists[1][1][1] # NoneIntent
    /\ DetectedIntent(rating.sorted_intents).value = NoneIntent

\* two calls with a falling threshold, the top confidence at most the second
FallingThresholds ==
    /\ Rated
    /\ Len(rating.thresholds) = 2
    /\ rating.lists[1] # <<>>
    /\ rating.thresholds[2] < rating.thresholds[1]
    /\ rating.lists[1][1][2] <= rating.thresholds[2]

\* C24 as claimed: two calls with a falling threshold insert the none entry
\* twice.
C24_FallingThresholdInsertsTwice ==
    FallingThresholds =>
        rating.sorted_intents = <<NoneEntry, NoneEntry>> \o rating.lists[1]

\* C24: after a call that inserted the none entry the top confidence is 1.0,
\* so a second call inserts it again exactly when its threshold is at least
\* 1.0, falling or not; a second threshold below 1.0 leaves the single entry.
C24_SecondInsertionFromOne ==
    (Rated /\ Len(rating.thresholds) = 2 /\ rating.lists[1] # <<>>
        /\ rating.lists[1][1][2] <= rating.thresholds[1]) =>
        /\ rating.thresholds[2] >= ConfidenceScale =>
              rating.sorted_intents = <<NoneEntry, NoneEntry>> \o rating.lists[1]
        /\ rating.thresholds[2] < ConfidenceScale =>
              rating.sorted_intents = <<NoneEntry>> \o rating.lists[1]

\* a top confidence of 0, the thresholds 1/ConfidenceScale and then 0: the
\* none entry is inserted once
C24_Witness ==
    /\ FallingThresholds
    /\ rating.thresholds = <<1, 0>>
    /\ rating.lists[1][1][2] = 0
    /\ rating.sorted_intents = <<NoneEntry>> \o rating.lists[1]

\* optimize or benchmark has ended
EngineDone(operation) ==
    /\ engine # <<>>
    /\ engine.operation = operation
    /\ engine.call = "done"

\* C25: optimize returns the lowest of the thresholds of the grid whose mean
\* score over the iterations is maximal; that is 0 when no threshold has a
\* mean above 0.
C25_LowestBestThreshold ==
    (EngineDone("optimize") /\ engine.result[1].kind = "return") =>
        \E t \in DOMAIN GridThresholds :
            /\ engine.result[1].value = GridThresholds[t]
            /\ \A k \in DOMAIN GridThresholds :
                  /\ ~Less(GridMean(engine.grids, t), GridMean(engine.grids, k))
                  /\ k < t => Less(GridMean(engine.grids, k), GridMean(engine.grids, t))
            /\ (\A k \in DOMAIN GridThresholds :
                   GridMean(engine.grids, k) = Number(0)) => GridThresholds[t] = 0

\* the mean of the second threshold is above the mean of the first, which
\* is above 0: the second threshold is returned
C25_Witness ==
    /\ EngineDone("optimize")
    /\ engine.result[1].kind = "return"
    /\ engine.result[1].value = 1
    /\ Less(Number(0), GridMean(engine.grids, 1))
    /\ Less(GridMean(engine.grids, 1), GridMean(engine.grids, 2))
    /\ engine.grids[1] # engine.grids[2]

Sentences(n) == [k \in 1..n |-> engine.validation[k][1]]

\* C28: benchmark calls train once, rateIntents for the validation entries
\* in order and only after train returned, stops rating at the first
\* failure, calls cleanupTraining once on every path, and returns a
\* confusion matrix only if all the calls succeeded.
C28_BenchmarkSequence ==
    (engine # <<>> /\ engine.operation = "benchmark") =>
        /\ engine.counts.train = 1
        /\ engine.counts.reshuffle = 0
        /\ engine.counts.rateIntents = Len(engine.rated)
        /\ engine.rated = Sentences(Len(engine.rated))
        /\ engine.call = "train" => engine.rated = <<>>
        /\ engine.exc = <<"train">> => engine.rated = <<>>
        /\ engine.exc = <<"rateIntents">> => Len(engine.rated) = Len(engine.ratings) + 1
        /\ engine.exc = <<>> /\ engine.call \in {"cleanupTraining", "done"} =>
              /\ Len(engine.rated) = ValidationEntries
              /\ Len(engine.ratings) = ValidationEntries
        /\ engine.counts.cleanupTraining =
              (IF engine.call \in {"cleanupTraining", "done"} THEN 1 ELSE 0)
        /\ engine.call = "done" =>
              /\ engine.exc # <<>> => engine.result[1].kind = "raise"
              /\ engine.result[1].kind = "return" =>
                    /\ engine.exc = <<>>
                    /\ Len(engine.ratings) = ValidationEntries
                    /\ DOMAIN engine.result[1].value =
                          {IntentOf(engine.validation[k]) : k \in 1..ValidationEntries}

\* the first entry was rated, the rating of the second failed, the cleanup
\* was made
C28_Witness ==
    /\ EngineDone("benchmark")
    /\ engine.exc = <<"rateIntents">>
    /\ Len(engine.ratings) = 1
    /\ engine.rated = Sentences(2)
    /\ engine.counts.cleanupTraining = 1
    /\ engine.result[1].kind = "raise"

\* ------------------------------------------------ claims: no early abort
\* the operations started on the object o
OperationCalls(o) == CopiesIn(<<o, "op", 0>>, calls)

\* C29: run_in_parallel starts the operation once for every object; an
\* operation ends only by returning or raising itself, also after the
\* operation of another object has failed; the gather of the operations ends,
\* and a rollback is started, only when every operation has ended.
C29_OperationsRunToCompletion ==
    /\ \A o \in Objects :
          OperationCalls(o) = Cardinality({j \in DOMAIN objects : objects[j] = o})
    /\ rp_pc = "gather_op" =>
          \A j \in DOMAIN outcome : outcome[j] = Pending <=> task[j].call # "done"
    /\ rp_pc # "gather_op" => \A j \in DOMAIN outcome : outcome[j] # Pending
    /\ (\E o \in Objects : RollbackCalls(o) > 0) =>
          \A j \in DOMAIN outcome : outcome[j] # Pending

\* the operation that ended first failed and the two others have ended,
\* successfully, after it
C29_Witness ==
    /\ rp_pc = "gather_op"
    /\ Len(objects) = 3
    /\ Len(order) = 3
    /\ OpFailed(order[1])
    /\ OpSucceeded(order[2])
    /\ OpSucceeded(order[3])

\* ------------------------------------------- claims: the engine lifecycle
\* unprepareDataSet was invoked on f for d and has returned
UnprepareCompleted(f, d) ==
    /\ Calls(f, "unprepareDataSet", d) > 0
    /\ ~Outstanding("unprepareDataSet")
    /\ \A x \in raised : ~(x[1] = f /\ x[3] = "unprepareDataSet" /\ x[4] = d)

\* the data sets engine f is prepared for
PreparedFor(f) ==
    {d \in DataSets : <<f, d>> \in prepared /\ Calls(f, "unprepareDataSet", d) = 0}

\* the calls of the gather in progress that have not returned yet
Awaited == {j \in DOMAIN task : task[j].call # "done"}

\* C27: the calls the orchestrator issues to an engine follow the lifecycle.
\* As long as a call of the benchmark operation (train, rateIntents,
\* cleanupTraining) is awaited, the engine's prepareDataSet for the current
\* data set has returned and no unprepareDataSet for it has been invoked; as
\* long as prepareDataSet is awaited, every data set prepared before has been
\* unprepared; an engine is prepared for one data set at most; once destruct
\* has been invoked on an engine, no other call is awaited on it.
C27_LifecycleConformance ==
    /\ \A f \in Frameworks : Cardinality(PreparedFor(f)) <= 1
    /\ \A j \in Awaited :
          /\ Running = "benchmark" => PreparedFor(Target(j)) = {data_set}
          /\ Running = "prepareDataSet" =>
                /\ PreparedFor(Target(j)) = {}
                /\ Calls(Target(j), "prepareDataSet", data_set) = 1
                /\ \A e \in DataSets \ {data_set} :
                      Calls(Target(j), "prepareDataSet", e) > 0 =>
                         UnprepareCompleted(Target(j), e)
          /\ Calls(Target(j), "destruct", 0) =
                IF task[j].call = "destruct" THEN 1 ELSE 0

\* the second data set is validated on an engine that was prepared for,
\* benchmarked on and unprepared for the first
C27_Witness ==
    /\ pc = "benchmark"
    /\ data_set = 2
    /\ Calls(1, "cleanupTraining", 1) > 0
    /\ UnprepareCompleted(1, 1)
    /\ PreparedFor(1) = {2}
    /\ \E j \in Awaited : Target(j) = 1 /\ task[j].call = "rateIntents"
    /\ Calls(1, "destruct", 0) = 0

\* a benchmark of data set d has raised
FailedOn(d) == \E x \in raised : x[2] = "benchmark" /\ x[4] = d

\* a benchmark batch has ended with the failure of an engine
BenchmarkFailed ==
    /\ \E d \in DataSets : FailedOn(d)
    /\ ~(pc = "benchmark" /\ rp_pc = "gather_op")

\* the iterations of data set d whose performances have been stored
CompletedIterations(d) ==
    Cardinality({i \in DOMAIN iterations : d \in DOMAIN iterations[i]})

\* the train calls the optimizer of engine f makes inside prepareDataSet(d)
OptimizerTrains(f, d) == Calls(f, "train", d) - Calls(f, "benchmark", d)

\* C30: the orchestrator repeats nothing. For every engine and data set the
\* benchmarks started (each with its one train) are those of the iterations
\* whose performances are stored, plus the one in progress or the one that
\* failed; once a benchmark batch has failed, its iteration and its data set
\* remain the last ones started and the only calls awaited afterwards are
\* unprepareDataSet and destruct.
C30_NoRetry ==
    /\ \A f \in Frameworks, d \in DataSets :
          /\ Calls(f, "benchmark", d) =
                CompletedIterations(d)
                + (IF (pc = "benchmark" /\ data_set = d) \/ FailedOn(d)
                   THEN 1 ELSE 0)
          /\ OptimizerTrains(f, d) >= 0
          /\ OptimizerTrains(f, d) <=
                IF optimize_intent_threshold[f] THEN OptimizerIterations ELSE 0
    /\ BenchmarkFailed =>
          /\ FailedOn(data_set)
          /\ \A f \in Frameworks :
                /\ Calls(f, "benchmark", data_set) = iteration + 1
                /\ \A d \in DataSets :
                      d > data_set => Calls(f, "prepareDataSet", d) = 0
          /\ \A j \in Awaited : task[j].call \in {"unprepareDataSet", "destruct"}

\* the first benchmark batch failed on an engine: the run has ended without
\* a second iteration and without the second data set
C30_Witness ==
    /\ pc = "done"
    /\ FailedOn(1)
    /\ \A f \in Frameworks :
          /\ Calls(f, "benchmark", 1) = 1
          /\ Calls(f, "unprepareDataSet", 1) = 1
          /\ Calls(f, "prepareDataSet", 2) = 0
          /\ Calls(f, "destruct", 0) = 1

\* ---------------------------------------------- claims: no division by zero
\* the <<dividend, divisor>> of the __safeDivide calls made for intent i:
\* precision, recall and, with their values, the F1 quotient
Divisions(i, matrix) ==
    LET c == PrepareF1Score(i, matrix)
        p == <<Number(c.true_positives),
               Number(c.true_positives + c.false_positives)>>
        r == <<Number(c.true_positives),
               Number(c.true_positives + c.false_negatives)>>
        precision == SafeDivide(p[1], p[2])
        recall    == SafeDivide(r[1], r[2])
    IN IF ZeroDivisionError \in {precision, recall} THEN {p, r}
       ELSE {p, r, <<Times(Number(100 * 2), Times(precision, recall)),
                     Plus(precision, recall)>>}

\* C38: confusionMatrixToF1Scores returns for every matrix of non-negative
\* counts: in each of its divisions a divisor of 0 comes with a dividend of 0.
C38_NoDivisionByZero ==
    f1_scores # <<>> =>
        /\ f1_scores[1].kind = "return"
        /\ \A i \in Keys(confusion_matrix) :
              \A q \in Divisions(i, confusion_matrix) :
                 q[2] = Number(0) => q[1] = Number(0)

\* an intent that was expected and never detected, and another one with an
\* empty row that was detected only: 0/0 in the recall of the second and in
\* the F1 quotient of both
C38_Witness ==
    /\ Scored
    /\ \E i, k \in Keys(confusion_matrix) :
          /\ TruePositives(i) = 0
          /\ FalseNegatives(i) > 0
          /\ TruePositives(k) + FalseNegatives(k) = 0
          /\ FalsePositives(k) > 0
          /\ <<Number(0), Number(0)>> \in Divisions(i, confusion_matrix)
          /\ <<Number(0), Number(0)>> \in Divisions(k, confusion_matrix)
          /\ f1_scores[1].value[i] = Number(0)
          /\ f1_scores[1].value[k] = Number(0)

\* ------------------------------------------- claims: the empty-half check
\* floor(P * N / 100) for the N loaded entries with an intent
SizeOfValidationHalf == (validation_percentage * NumWithIntent) \div 100

\* C36: every call of reshuffle, the one of the constructor and the later
\* ones, whatever the shuffle and the None-entries, raises exactly when
\* floor(P*N/100) is 0 or N: a data set that was constructed never raises.
C36_RaisesBySizeOnly ==
    [][ds_pc' = "raised" <=> SizeOfValidationHalf \in {0, NumWithIntent}]_vars

\* the construction raised for two entries with an intent at 34 percent,
\* although a None-entry was loaded that would have been validation data
C36_Witness ==
    /\ ds_pc = "raised"
    /\ NumWithIntent = 2
    /\ validation_percentage = 34
    /\ Len(none_data) = 1
    /\ validation = <<>>

\* ------------------------------------------------ claims: the grid search
\* the thresholds 0, s, 2s, ... below the bound
Multiples(grid_step_size, bound) ==
    {t \in 0..(bound - 1) : t % grid_step_size = 0}

C33_ThresholdZeroWhileOptimizing ==
    engine.optimize_intent_threshold =>
        \A r \in engine.rated :
           /\ r[2] = "optimize" => r[3] = 0
           /\ r[2] = "benchmark" =>
                 /\ r[1] \in DOMAIN engine.optimized
                 /\ r[3] = engine.optimized[r[1]]

\* the threshold optimized for the first data set was not 0, it was applied
\* in the benchmark passes of that data set, and the optimizer has rated an
\* entry of the second data set
C33_Witness ==
    /\ engine.optimize_intent_threshold
    /\ engine.data_set = 2
    /\ engine.call = "optimize"
    /\ engine.optimized = <<1>>
    /\ <<1, "benchmark", 1>> \in engine.rated
    /\ <<2, "optimize", 0>> \in engine.rated

\* ------------------------------------- claims: unprepareDataSet exactly once
\* the prepare batch of data set d has failed for an engine
PrepareFailed(d) == \E x \in raised : x[2] = "prepareDataSet" /\ x[4] = d

\* the try block of data set d was entered (its first statement reads the flag)
TryEntered(d) == \E x \in flag_reads : x[1] = d /\ x[2] = "prepared"

\* C34: unprepareDataSet is invoked at most once per engine and data set, and
\* exactly once, by the time the data set is left, on every engine whose
\* prepareDataSet for it returned: by the rollback of the prepare batch when
\* that batch failed, by the finally block otherwise; the rollback and the
\* finally block never both run for the same data set.
C34_UnprepareExactlyOnce ==
    /\ \A f \in Frameworks, d \in DataSets :
          /\ Calls(f, "unprepareDataSet", d) <= 1
          /\ Calls(f, "unprepareDataSet", d) = 1 => <<f, d>> \in prepared
          /\ (<<f, d>> \in prepared /\ Left(d)) =>
                Calls(f, "unprepareDataSet", d) = 1
    /\ \A d \in DataSets : ~(PrepareFailed(d) /\ TryEntered(d))
    /\ \A j \in Awaited : task[j].call = "unprepareDataSet" =>
          IF PrepareFailed(data_set)
          THEN pc = "prepare" /\ rp_pc = "gather_rollback"
          ELSE pc = "unprepare" /\ rp_pc = "gather_op" /\ TryEntered(data_set)

\* the first data set was unprepared by the finally block, the second by the
\* rollback of its prepare batch, which failed for another engine
C34_Witness ==
    /\ pc = "done"
    /\ TryEntered(1)
    /\ ~PrepareFailed(1)
    /\ PrepareFailed(2)
    /\ \A f \in Frameworks : Calls(f, "unprepareDataSet", 1) = 1
    /\ \E f, g \in Frameworks :
          /\ <<f, 2>> \in prepared
          /\ Calls(f, "unprepareDataSet", 2) = 1
          /\ <<g, 2>> \notin prepared
          /\ Calls(g, "unprepareDataSet", 2) = 0

\* ------------------------------------------ claims: the collected structure
\* the iterations (counted from 1) that hold an entry for data set d
StoredFor(d) == {i \in DOMAIN iterations : d \in DOMAIN iterations[i]}

\* __run has returned the collected structure
RunReturned == pc \in {"destruct", "done"} /\ pending = NoException

\* C31: the collected structure never has more than NumIterations entries;
\* the entries that hold data set d are those of the iterations whose
\* benchmark batch on d has returned, and entry i maps d to the map from
\* every engine to the confusion matrix returned by the benchmark of that
\* engine (by position in the list of engines, for every order in which the
\* engines finish). When __run has returned there are exactly NumIterations
\* entries and each maps every data set.
C31_CollectedStructure ==
    /\ Len(iterations) <= NumIterations
    /\ \A i \in DOMAIN iterations : \A d \in DOMAIN iterations[i] :
          /\ d \in DataSets
          /\ d <= data_set
          /\ iterations[i][d] =
                [f \in Frameworks |-> Result("benchmark", frameworks[f])]
    /\ \A d \in DataSets :
          /\ StoredFor(d) = 1..CompletedIterations(d)
          /\ d < data_set => StoredFor(d) = 1..NumIterations
          /\ (d = data_set /\ pc = "benchmark") => StoredFor(d) = 1..iteration
    /\ RunReturned =>
          /\ Len(iterations) = NumIterations
          /\ \A i \in DOMAIN iterations : DOMAIN iterations[i] = DataSets

\* a run over all data sets has ended without an exception
C31_Witness ==
    /\ pc = "done"
    /\ run_result = NoException
    /\ Len(iterations) = NumIterations
    /\ \A i \in 1..NumIterations, d \in DataSets, f \in Frameworks :
          iterations[i][d][f] = Result("benchmark", f)

\* --------------------------------------- claims: no report after cancellation
\* the statements of run after its finally block are reached: the statistics
\* are computed and reported
Reports == pc = "done" /\ run_result = NoException

\* a checkpoint of __run has read the cancel flag as set
CancellationSeen == \E x \in flag_reads : x[3]

\* C37 as claimed: a run in which a checkpoint read the flag as set (cancel()
\* came before the last checkpoint was read) ends with KeyboardInterrupt after
\* unprepareDataSet and destruct on every engine, and reports nothing.
C37_CancelEndsWithCancellationSignal ==
    (pc = "done" /\ CancellationSeen) =>
        /\ run_result.type = "KeyboardInterrupt"
        /\ \A f \in Frameworks :
              /\ Calls(f, "unprepareDataSet", data_set) = 1
              /\ Calls(f, "destruct", 0) = 1

\* C37 as amended: run reports only if every checkpoint read the flag as
\* clear. Once a checkpoint (after a preparation or after an iteration, the
\* last one of the last data set included) has read it as set, no further
\* checkpoint is read, no benchmark batch and no prepare batch is started,
\* unprepareDataSet and then destruct are invoked once on every engine, and
\* run ends without a report: with KeyboardInterrupt if every unprepareDataSet
\* and destruct call succeeds, otherwise with the ParallelException of the
\* failed batch (the destruct batch if both failed), raised while the
\* KeyboardInterrupt was propagating.
C37_NoReportAfterCancellation ==
    /\ Reports => NoCancellationSeen
    /\ ~cancel_flag => NoCancellationSeen
    /\ CancellationSeen =>
          /\ pc \in {"unprepare", "destruct", "done"}
          /\ Cardinality({x \in flag_reads : x[3]}) = 1
          /\ \A x \in flag_reads : x[1] <= data_set /\ (x[3] => x[1] = data_set)
          /\ <<data_set, "prepared", TRUE>> \in flag_reads =>
                \A f \in Frameworks : Calls(f, "benchmark", data_set) = 0
          /\ <<data_set, "iteration", TRUE>> \in flag_reads =>
                /\ StoredFor(data_set) = 1..(iteration + 1)
                /\ \A f \in Frameworks :
                      Calls(f, "benchmark", data_set) = iteration + 1
          /\ \A f \in Frameworks :
                /\ Calls(f, "unprepareDataSet", data_set) = 1
                /\ Calls(f, "destruct", 0) =
                      IF pc \in {"destruct", "done"} THEN 1 ELSE 0
                /\ \A e \in DataSets :
                      e > data_set => Calls(f, "prepareDataSet", e) = 0
          /\ pc = "unprepare" => pending = KeyboardInterrupt
          /\ pc \in {"destruct", "done"} => ~Outstanding("unprepareDataSet")
          /\ pc = "done" =>
                <<run_result.type, run_result.message, ContextType(run_result)>> =
                   IF DestructRaised
                   THEN <<"ParallelException",
                          "Error deconstructing all frameworks.",
                          IF UnprepareRaised(data_set) THEN "ParallelException"
                          ELSE "KeyboardInterrupt">>
                   ELSE IF UnprepareRaised(data_set)
                   THEN <<"ParallelException",
                          "Error unpreparing all frameworks.",
                          "KeyboardInterrupt">>
                   ELSE <<"KeyboardInterrupt", "", "None">>

\* cancel() came during the last iteration of the last data set, whose
\* benchmark passes all completed: the structure is complete, the run ends
\* with KeyboardInterrupt
C37_Witness ==
    /\ pc = "done"
    /\ <<NumDataSets, "iteration", TRUE>> \in flag_reads
    /\ raised = {}
    /\ Len(iterations) = NumIterations
    /\ \A i \in DOMAIN iterations : DOMAIN iterations[i] = DataSets
    /\ run_result = KeyboardInterrupt
    /\ ~Reports

\* ------------------------------------------------ claims: one split per pass
\* child task j awaits train before and after the step: the pass has read
\* training_data and has not read validation_data yet
AwaitsTrain(j) ==
    /\ task[j].call = "train"
    /\ j \in DOMAIN task'
    /\ task'[j] = task[j]

\* C35: the training entries given to train and the validation entries rated
\* afterwards come from the same split: the data set is not reshuffled
\* between the read of training_data, when train is called, and the read of
\* validation_data, when train has returned, of a benchmark pass or an
\* optimizer iteration, for every interleaving of the engines.
C35_OneSplitPerPass ==
    [][\A j \in DOMAIN task :
          AwaitsTrain(j) => shuffles'[data_set] = shuffles[data_set]]_vars

====
